---- MODULE Spec2Model ----
(***************************************************************************)
(* dpDebugger: the debug session execution engine.                         *)
(*                                                                         *)
(* The model follows CustomDebugRuntime (src/src/customDebugRuntime.ts,    *)
(* lines 1-491), its StepManager (src/unnamed/part_016), the breakpoint    *)
(* manager it is typed against (src/unnamed/part_004, lines 1-312) and the *)
(* request handlers of CustomDebugSession (src/src/customDebugSession.ts). *)
(*                                                                         *)
(* Every call to the language runtime (LRDP) is a suspension point: the    *)
(* request is appended to `inflight`, and the continuation of the          *)
(* operation runs when its response is consumed.  IDE requests are         *)
(* handled only while the operation in progress is suspended or when no    *)
(* operation is in progress.  Responses are consumed in the order the      *)
(* requests were issued.  The IDE sends continue, next, stepIn and stepOut *)
(* only when no operation is in progress.                                  *)
(***************************************************************************)
EXTENDS Naturals, Integers, Sequences, FiniteSets, TLC

\* ---------------------------------------------------------------- bounds
\* Number of step identifiers the language runtime may hand out.
MaxSteps == 4
\* Largest number of steps the runtime reports as available at once.
MaxAvail == 2
\* Deepest nesting of composite steps in the executed program.
MaxDepth == 2
\* Number of breakpoints the IDE may install.
MaxBp == 1
\* Number of IDE requests after launch.
MaxRequests == 3

\* ---------------------------------------------------------------- state
VARIABLES
    phase,                  \* "created" before launch, then "launched"
    pauseOnStart,           \* launch argument
    pauseOnEnd,             \* CustomDebugRuntime.pauseOnEnd
    skipRedundantPauses,    \* CustomDebugRuntime.skipRedundantPauses
    noDebug,                \* CustomDebugRuntime.noDebug
    availableSteps,         \* StepManager.availableSteps
    selectedStep,           \* StepManager._selectedStep
    stack,                  \* StepManager.stack
    availableStepsLocations,\* StepManager.availableStepsLocations
    isExecutionDone,        \* CustomDebugRuntime._isExecutionDone
    terminatedEventSent,    \* CustomDebugRuntime.terminatedEventSent
    pauseRequired,          \* CustomDebugRuntime.pauseRequired
    pausedOnCurrentStep,    \* CustomDebugRuntime.pausedOnCurrentStep
    breakpoints,            \* breakpoints the manager checks
    activatedBreakpoints,   \* breakpoints remembered as already activated
    task,                   \* the motion operation in progress
    inflight,               \* LRDP requests awaiting their response
    rtAvail,                \* language runtime: steps it offers
    rtStack,                \* language runtime: composites it is inside
    nextId,                 \* language runtime: next fresh step id
    events,                 \* stopped/terminated events sent to the IDE
    lastError,              \* error that ended the last operation
    requests,               \* IDE requests handled since launch
    hist                    \* observations used to state the properties

\* The session layer: what CustomDebugSession receives from and sends to the
\* IDE.
VARIABLES
    isInitialized,          \* CustomDebugSession.isInitialized
    runtime,                \* CustomDebugSession.runtime: "undefined", then
                            \* "initializing" until initializeExecution
                            \* returns, then "initialized"
    received,               \* IDE requests dispatched, in order
    sentMessages,           \* responses and events sent to the IDE, in order
    awaiting                \* handlers suspended at an await, in order

\* The breakpoint manager of domain-specific breakpoints and the locator it
\* resolves source positions with.
VARIABLES
    availableBreakpointTypes,   \* CDAPBreakpointManager._availableBreakpointTypes:
                                \* type id -> parameters of the type
    domainSpecificBreakpoints,  \* CDAPBreakpointManager._domainSpecificBreakpoints
    locations,                  \* ASTElementLocator.locations: line -> elements
    lineOffset,                 \* ASTElementLocator.lineOffset
    columnOffset,               \* ASTElementLocator.columnOffset
    managerCall                 \* the last call: what it returned and what
                                \* was expected of it

\* The handler of the variables shown by the IDE.
VARIABLES
    referenceToObject,          \* VariableReferenceRegistry.referenceToObject
    objectToReference,          \* VariableReferenceRegistry.objectToReference
    currentReference,           \* VariableHandler.currentReference
    processedRuntimeState,      \* VariableHandler.processedRuntimeState: the
                                \* number of the runtime state held, 0 when
                                \* undefined
    runtimeStates,              \* runtime states received so far
    variablesCall               \* the last call made to the handler

\* The stack trace shown by the IDE.
VARIABLES
    stackTraceCall,             \* the last stackTrace request: the stack it
                                \* read, its arguments and its response
    initializeExecutionRequests \* number of initializeExecution requests
                                \* sent to the language runtime

\* What the session keeps of the requests it accepted.
VARIABLES
    initializeArgs,             \* CustomDebugSession.initializeArgs
    enabledStep                 \* id of the step enabled by the last
                                \* enableStep request accepted, 0 if none

\* The motion operations started so far and the LRDP calls they wait for,
\* when the IDE does not wait for an operation to return.
VARIABLES
    operations,                 \* the operations, in order of their requests
    calls                       \* the LRDP calls that are not answered yet,
                                \* in the order they were issued

sessionVars == <<isInitialized, runtime, received, sentMessages, awaiting>>
concurrentVars == <<operations, calls>>
frameVars == <<stackTraceCall>>
lrdpVars == <<initializeExecutionRequests>>
argsVars == <<initializeArgs, enabledStep>>
managerVars == <<availableBreakpointTypes, domainSpecificBreakpoints,
                 locations, lineOffset, columnOffset, managerCall>>
handlerVars == <<referenceToObject, objectToReference, currentReference,
                 processedRuntimeState, runtimeStates, variablesCall>>
\* State of the components that are described on their own.
componentVars == <<sessionVars, managerVars, handlerVars, frameVars, lrdpVars,
                   argsVars, concurrentVars>>

engineVars == <<availableSteps, selectedStep, stack, availableStepsLocations,
                isExecutionDone, terminatedEventSent, pauseRequired,
                pausedOnCurrentStep>>
configVars == <<phase, pauseOnStart, pauseOnEnd, skipRedundantPauses, noDebug>>
bpVars == <<breakpoints, activatedBreakpoints>>
rtVars == <<rtAvail, rtStack, nextId>>
coreVars == <<configVars, engineVars, bpVars, task, inflight, rtVars, events,
              lastError, requests, hist>>
vars == <<coreVars, componentVars>>
\* What the actions of one component leave unchanged.
notSessionVars ==
    <<coreVars, managerVars, handlerVars, frameVars, lrdpVars, argsVars,
      concurrentVars>>
notManagerVars ==
    <<coreVars, sessionVars, handlerVars, frameVars, lrdpVars, argsVars,
      concurrentVars>>
notHandlerVars ==
    <<coreVars, sessionVars, managerVars, frameVars, lrdpVars, argsVars,
      concurrentVars>>
notFrameVars ==
    <<coreVars, sessionVars, managerVars, handlerVars, lrdpVars, argsVars,
      concurrentVars>>
notLrdpVars ==
    <<coreVars, managerVars, handlerVars, frameVars, argsVars,
      concurrentVars>>
notConcurrentVars ==
    <<sessionVars, managerVars, handlerVars, frameVars, lrdpVars, argsVars>>
notArgsVars ==
    <<coreVars, managerVars, handlerVars, frameVars, lrdpVars,
      concurrentVars>>

\* ---------------------------------------------------------------- steps
\* LRP.Step: id and isComposite (name and description carry no behaviour).
Step(i, c) == [id |-> i, isComposite |-> c]
\* `undefined` for a step.
NoStep == [id |-> 0, isComposite |-> FALSE]

StepIds == 1..MaxSteps
BpIds == 1..MaxBp

\* Array.prototype.includes / find on a list of steps.
Range(s) == {s[i] : i \in 1..Len(s)}
IdsOf(s) == {s[i].id : i \in 1..Len(s)}

\* A default selection that takes the last step of the list.
FirstOrNone_last(steps) == IF Len(steps) > 0 THEN steps[Len(steps)] ELSE NoStep
\* availableSteps.length > 0 ? availableSteps[0] : undefined
FirstOrNone(steps) == IF Len(steps) > 0 THEN steps[1] ELSE NoStep

\* Map.get(step) !== undefined on availableStepsLocations; the map is a set
\* of <<step id, id of the step whose location was reported>> pairs.
HasLocation(locs, step) == \E p \in locs : p[1] = step.id
\* Map.set(step, location)
SetLocation(locs, step, owner) ==
    {p \in locs : p[1] # step.id} \cup {<<step.id, owner>>}

\* ------------------------------------------------------- language runtime
\* The runtime is an external collaborator reached through LRDP.  A program
\* is a nesting of composite steps around atomic steps; the runtime may
\* offer several steps at once.  Step ids are handed out in increasing
\* order, so an id never denotes two steps.

\* Lists of fresh steps the runtime may offer when it is `depth` composites
\* deep: a composite is offered only if one more level may be entered and an
\* id remains for a step inside it.
NewLists(from, depth) ==
    UNION {{[i \in 1..n |-> Step(from + i - 1, shape[i])] :
                shape \in {f \in [1..n -> BOOLEAN] :
                    /\ from + n - 1 <= MaxSteps
                    /\ (\E i \in 1..n : f[i]) =>
                          (depth < MaxDepth /\ from + n <= MaxSteps)}} :
           n \in 0..MaxAvail}

\* getAvailableSteps right after initializeExecution.
RtInitialLists == NewLists(1, 0)

\* enterCompositeStep: the composite is entered and exposes its sub-steps.
RtCanEnter(step) == step \in Range(rtAvail) /\ step.isComposite
RtEnterResults(step) ==
    {[stack |-> Append(rtStack, step.id), avail |-> l] :
        l \in {x \in NewLists(nextId, Len(rtStack) + 1) : Len(x) > 0}}

\* Ids of the k innermost entered composites, innermost first.
RECURSIVE InnermostFirst(_, _)
InnermostFirst(stk, k) ==
    IF k = 0 THEN <<>>
    ELSE <<stk[Len(stk)]>> \o InnermostFirst(SubSeq(stk, 1, Len(stk) - 1), k - 1)

\* executeAtomicStep: the step completes, together with the k innermost
\* composites it was the last step of; completedSteps lists them innermost
\* first.  The execution is over (no step offered) only when every composite
\* has completed.
RtCanExecute(step) == step \in Range(rtAvail) /\ ~step.isComposite
RtExecuteResults(step) ==
    UNION {{[stack |-> SubSeq(rtStack, 1, Len(rtStack) - k),
             completedSteps |-> <<step.id>> \o InnermostFirst(rtStack, k),
             avail |-> l] :
                l \in {x \in NewLists(nextId, Len(rtStack) - k) :
                          Len(x) = 0 => k = Len(rtStack)}} :
           k \in 0..Len(rtStack)}

\* ------------------------------------------------------------ StepManager
\* completedStepsCopy.findIndex(stepId => stepId === id), 0 for -1.
FindIndex(ids, id) ==
    IF \E i \in 1..Len(ids) : ids[i] = id
    THEN CHOOSE i \in 1..Len(ids) :
            ids[i] = id /\ \A j \in 1..(i - 1) : ids[j] # id
    ELSE 0

\* completedStepsCopy.splice(i, 1)
Splice(ids, i) == SubSeq(ids, 1, i - 1) \o SubSeq(ids, i + 1, Len(ids))

\* StepManager.removeCompletedStepsFromStack: pops while the id of the top
\* of the stack is found in the (copied) list of completed steps.
RECURSIVE removeCompletedStepsFromStack(_, _)
removeCompletedStepsFromStack(stk, completedStepsCopy) ==
    IF Len(stk) = 0 THEN stk
    ELSE LET matchIndex == FindIndex(completedStepsCopy, stk[Len(stk)].id)
         IN  IF matchIndex = 0 THEN stk
             ELSE removeCompletedStepsFromStack(SubSeq(stk, 1, Len(stk) - 1),
                                                Splice(completedStepsCopy, matchIndex))

\* StepManager.update(availableSteps, completedSteps).  The result carries
\* `error` # "none" when update throws, and then nothing is changed.
update(newAvailableSteps, completedSteps) ==
    IF selectedStep = NoStep THEN
        [error |-> "No step is selected.", stack |-> stack,
         availableSteps |-> availableSteps, selectedStep |-> selectedStep,
         locations |-> availableStepsLocations]
    ELSE IF Len(completedSteps) = 0
            /\ ~HasLocation(availableStepsLocations, selectedStep) THEN
        [error |-> "No location for selected step.", stack |-> stack,
         availableSteps |-> availableSteps, selectedStep |-> selectedStep,
         locations |-> availableStepsLocations]
    ELSE
        [error |-> "none",
         stack |-> IF Len(completedSteps) = 0
                   THEN Append(stack, selectedStep)
                   ELSE removeCompletedStepsFromStack(stack, completedSteps),
         availableSteps |-> newAvailableSteps,
         selectedStep |-> FirstOrNone(newAvailableSteps),
         locations |-> {}]

\* StepManager.selectStep(stepId)
selectStep(stepId) ==
    IF \E s \in Range(availableSteps) : s.id = stepId
    THEN CHOOSE s \in Range(availableSteps) : s.id = stepId
    ELSE selectedStep

\* ------------------------------------------------------------- operations
\* The motion operation in progress.  `pc` is where it is suspended:
\* "check" (checkBreakpoint), "step" (enterCompositeStep or
\* executeAtomicStep), "avail" (getAvailableSteps); "top" and "find" are the
\* head of the operation's loop and the head of findNextAtomicStep, which
\* run without suspension; "idle" when no operation is in progress.
NewTask(op, loop, nd) ==
    [op |-> op, loop |-> loop, pc |-> "idle", noDebug |-> nd, cur |-> NoStep,
     targetStep |-> 0, completedSteps |-> <<>>, resp |-> <<>>]
NoTask == NewTask("none", "none", FALSE)

\* How a piece of an operation ends.
Stop(reason) == [kind |-> "stop", reason |-> reason]
Terminate == [kind |-> "terminated", reason |-> "terminated"]
Resend == [kind |-> "resend", reason |-> "terminated"]
Throw(message) == [kind |-> "error", reason |-> message]
Goto(pc) == [kind |-> "goto", reason |-> pc]

EmitsEvent(o) == o.kind \in {"stop", "terminated", "resend"}

\* ----------------------------------------------------------- observations
\* `hist` records what the properties below are about; no operation reads
\* it.
\*   requestWhenDone the last IDE request handled, for the requests
\*                   handled once the execution is done ("none" before)
\*   opEvents        events sent since the last motion request
\*   fromStop        the last motion request followed a stopped event
\*   stackAtStart    stack.length when the last motion request arrived
\*   pausesInOp      pause requests handled while the operation was in
\*                   progress (counted up to 2)
\*   execSincePause  executeAtomicStep requests sent since the first of them
\*   pauseAtExec     the first of them arrived while an atomic step was
\*                   being executed
\*   targetReported  the runtime reported the target of nextStep completed
\*   execAfterTarget an executeAtomicStep request was sent after that
\*   execInOp        executeAtomicStep requests sent by the operation
\*   stepsSinceStop  steps performed since the last stop or the launch
\*   stoppedOn       step the last stop was reported on (0: none)
\*   lastSend        the step request the operation sent last
\*   initialSteps    number of steps available at initialization
\*   launchEvents    events sent by launchRequest
NoSend == [step |-> 0, checked |-> FALSE, fresh |-> FALSE, on |-> 0,
           paused |-> FALSE, nAvail |-> 0, loop |-> "none"]

NoHist ==
    [requestWhenDone |-> "none", opEvents |-> 0, fromStop |-> FALSE,
     stackAtStart |-> 0, pausesInOp |-> 0, execSincePause |-> 0,
     pauseAtExec |-> FALSE,
     targetReported |-> FALSE, execAfterTarget |-> FALSE, execInOp |-> 0,
     stepsSinceStop |-> 0, stoppedOn |-> 0, lastSend |-> NoSend,
     initialSteps |-> 0, launchEvents |-> <<>>]

LastEvent == IF Len(events) = 0 THEN "none" ELSE events[Len(events)]

\* An IDE motion request starts an operation.
NewOp(h, request) ==
    [h EXCEPT !.requestWhenDone = IF isExecutionDone THEN request
                                   ELSE "none",
              !.opEvents = 0,
              !.fromStop = LastEvent \notin {"none", "terminated"},
              !.stackAtStart = Len(stack),
              !.pausesInOp = 0,
              !.execSincePause = 0,
              !.pauseAtExec = FALSE,
              !.targetReported = FALSE,
              !.execAfterTarget = FALSE,
              !.execInOp = 0,
              !.lastSend = NoSend]

\* The operation sends the request performing `step`; `checked` tells
\* whether checkBreakpoints was called for that step just before and
\* returned undefined.
Sent(h, t, step, checked) ==
    [h EXCEPT !.lastSend = [step |-> step.id, checked |-> checked,
                            fresh |-> h.stepsSinceStop = 0,
                            on |-> h.stoppedOn,
                            paused |-> pausedOnCurrentStep,
                            nAvail |-> Len(availableSteps),
                            loop |-> t.loop],
              !.execSincePause = IF ~step.isComposite /\ h.pausesInOp > 0
                                 THEN @ + 1 ELSE @,
              !.execAfterTarget = @ \/ (~step.isComposite /\ h.targetReported),
              !.execInOp = IF step.isComposite THEN @ ELSE @ + 1]

\* Applies the end of a piece of an operation: stop() sets
\* pausedOnCurrentStep and sends the stopped event; the end of the
\* execution sets terminatedEventSent and sends the terminated event; an
\* error ends the operation without an event.  `on` is the step a stop is
\* reported on.
Conclude(o, t, paused, h, on) ==
    /\ task' = IF o.kind = "goto" THEN [t EXCEPT !.pc = o.reason]
               ELSE NewTask(t.op, "none", FALSE)
    /\ pausedOnCurrentStep' = IF o.kind = "stop" THEN TRUE ELSE paused
    /\ terminatedEventSent' = IF o.kind = "terminated" THEN TRUE
                              ELSE terminatedEventSent
    /\ events' = IF EmitsEvent(o) THEN Append(events, o.reason) ELSE events
    /\ lastError' = IF o.kind = "error" THEN o.reason
                    ELSE IF o.kind = "goto" /\ task.pc # "idle" THEN lastError
                    ELSE "none"
    /\ hist' = IF o.kind = "goto" THEN h
               ELSE [h EXCEPT
                       !.opEvents = IF EmitsEvent(o) THEN @ + 1 ELSE @,
                       !.stoppedOn = IF o.kind = "stop" THEN on ELSE @,
                       !.stepsSinceStop = IF o.kind = "stop" THEN 0 ELSE @,
                       !.lastSend = NoSend]

\* A head that starts the loop again although the execution is done.
doneOutcome_loopsAgain(sent) == Goto("top")
\* Head of run, nextStep, stepIn and stepOut when the execution is done.
doneOutcome(sent) ==
    IF ~sent THEN Resend ELSE Throw("Execution is already done.")

\* A tail that stops with reason end whatever pauseOnEnd is.
endOutcome_alwaysStops(onEnd) == Stop("end")
\* Tail of _run, nextStep, stepIn and stepOut once the execution is done.
endOutcome(onEnd) == IF onEnd THEN Stop("end") ELSE Terminate

\* A loop head that does not look at pauseRequired.
loopTopOutcome_noPause(t) ==
    IF isExecutionDone THEN endOutcome(pauseOnEnd)
    ELSE IF t.loop = "target" /\ t.targetStep \in Range(t.completedSteps)
         THEN Stop("step")
    ELSE IF selectedStep = NoStep THEN Throw("No step currently enabled.")
    ELSE Goto("find")
\* Head of the loop of _run (loop = "run") and of nextStep (loop = "target").
loopTopOutcome(t) ==
    IF isExecutionDone THEN endOutcome(pauseOnEnd)
    ELSE IF pauseRequired THEN Stop("pause")
    ELSE IF t.loop = "target" /\ t.targetStep \in Range(t.completedSteps)
         THEN Stop("step")
    ELSE IF selectedStep = NoStep THEN Throw("No step currently enabled.")
    ELSE Goto("find")

\* A loop that goes on whatever the number of available steps.
bottomOutcome_noChoice(steps) == Goto("top")
\* "Check non-determinism on next top-level composite step".
bottomOutcome(steps) == IF Len(steps) > 1 THEN Stop("choice") ELSE Goto("top")

\* findNextAtomicStep after enterCompositeStep returned.
afterEnterOutcome(steps) ==
    IF Len(steps) > 1 THEN Stop("choice") ELSE Goto("find")

\* stepIn after its try block.
stepInOutcome(done, onEnd) ==
    IF ~done THEN Stop("step") ELSE endOutcome(onEnd)

\* A check made whatever pausedOnCurrentStep is.
MustCheckBreakpoints_evenWhenPaused(nd, paused, skip) == ~nd
\* Condition guarding the breakpoint check of enterCompositeStep and
\* executeAtomicStep.
MustCheckBreakpoints(nd, paused, skip) == ~nd /\ (~paused \/ ~skip)

\* The LRDP request performing a step.
StepRequest(step) ==
    [kind |-> IF step.isComposite THEN "enterCompositeStep"
              ELSE "executeAtomicStep",
     step |-> step.id]

Launched == phase = "launched"
\* The session handles an IDE request or an LRDP response only when no
\* synchronous code is running.
Suspended == Launched /\ task.pc \in {"idle", "check", "step", "avail"}
CanRequest == Suspended /\ requests < MaxRequests
CanStart == CanRequest /\ task.pc = "idle"

\* ----------------------------------------------------------------- launch
CoreInit ==
    /\ phase = "created"
    /\ pauseOnStart = FALSE
    /\ pauseOnEnd = FALSE
    /\ skipRedundantPauses = FALSE
    /\ noDebug = FALSE
    /\ availableSteps = <<>>
    /\ selectedStep = NoStep
    /\ stack = <<>>
    /\ availableStepsLocations = {}
    /\ isExecutionDone = FALSE
    /\ terminatedEventSent = FALSE
    /\ pauseRequired = FALSE
    /\ pausedOnCurrentStep = TRUE
    /\ breakpoints = {}
    /\ activatedBreakpoints = {}
    /\ task = NoTask
    /\ inflight = <<>>
    /\ rtAvail = <<>>
    /\ rtStack = <<>>
    /\ nextId = 1
    /\ events = <<>>
    /\ lastError = "none"
    /\ requests = 0
    /\ hist = NoHist

\* CustomDebugSession before any request.
SessionInit ==
    /\ isInitialized = FALSE
    /\ runtime = "undefined"
    /\ received = <<>>
    /\ sentMessages = <<>>
    /\ awaiting = <<>>

\* No call made to the breakpoint manager.
NoCall ==
    [op |-> "none", returned |-> <<>>, body |-> [defined |-> FALSE, breakpoints |-> <<>>],
     expected |-> <<>>, expectedInstalled |-> <<>>]

\* The breakpoint manager of a runtime that declares no breakpoint type,
\* for a program without located elements.
ManagerInit ==
    /\ availableBreakpointTypes = <<>>
    /\ domainSpecificBreakpoints = <<>>
    /\ locations = <<>>
    /\ lineOffset = 0
    /\ columnOffset = 0
    /\ managerCall = NoCall

\* ------------------------------------------------------- variable handler
\* VariableHandler and VariableReferenceRegistry (src/unnamed/part_019,
\* lines 1-259), used by the variables request, by updateRuntimeState and
\* by executeAtomicStep.

\* Runtime states the language runtime returns during one execution.
MaxRuntimeStates == 2
\* Largest variables reference the IDE asks for.
MaxReference == 6

AST_ROOT_VARIABLES_REFERENCE == 1
RUNTIME_STATE_ROOT_VARIABLES_REFERENCE == 2

\* An object of a model: model 0 is the AST, model g > 0 is the g-th runtime
\* state received; node names the element or the array in its model.
Object(model, node) == [model |-> model, node |-> node]
astRoot == Object(0, "root")
runtimeStateRoot(g) == Object(g, "root")

\* The objects that get a reference when the variables of an object are
\* listed, in the order getVariablesForModelElement (attributes, refs,
\* children) and getVariablesForArray create them.  The AST root has a child
\* element and an array of one element; the root of a runtime state refers
\* to the child element of the AST and has a child element of its own.
ReferencedObjects(object) ==
    IF object.node = "root" /\ object.model = 0
        THEN <<Object(0, "child"), Object(0, "items")>>
    ELSE IF object.node = "items" THEN <<Object(object.model, "item")>>
    ELSE IF object.node = "root"
        THEN <<Object(0, "child"), Object(object.model, "child")>>
    ELSE <<>>

\* A registry: both maps of VariableReferenceRegistry.
EmptyRegistry ==
    [referenceToObject |-> [r \in {} |-> r],
     objectToReference |-> [o \in {} |-> o]]

\* VariableReferenceRegistry.set(object, reference)
set(registry, object, reference) ==
    IF \/ reference \in DOMAIN registry.referenceToObject
       \/ object \in DOMAIN registry.objectToReference
    THEN registry
    ELSE [referenceToObject |->
              registry.referenceToObject @@ (reference :> object),
          objectToReference |->
              registry.objectToReference @@ (object :> reference)]

\* A getReference that does not advance currentReference.
getReference_notCounting(handler, object) ==
    IF object \in DOMAIN handler.registry.objectToReference THEN handler
    ELSE [registry |-> set(handler.registry, object, handler.currentReference),
          currentReference |-> handler.currentReference]
\* VariableHandler.getReference(object): the handler after the call.
getReference(handler, object) ==
    IF object \in DOMAIN handler.registry.objectToReference THEN handler
    ELSE [registry |-> set(handler.registry, object, handler.currentReference),
          currentReference |-> handler.currentReference + 1]

\* The loops of getVariablesForModelElement and getVariablesForArray: a
\* reference for each object of the list, from the k-th one on.
RECURSIVE createVariables(_, _, _)
createVariables(handler, objects, k) ==
    IF k > Len(objects) THEN handler
    ELSE createVariables(getReference(handler, objects[k]), objects, k + 1)

\* The references getReference returns to the same loops, from the k-th
\* object on: the registered reference of the object, or the current
\* reference when it has none.
RECURSIVE returnedReferences(_, _, _)
returnedReferences(handler, objects, k) ==
    IF k > Len(objects) THEN <<>>
    ELSE <<IF objects[k] \in DOMAIN handler.registry.objectToReference
           THEN handler.registry.objectToReference[objects[k]]
           ELSE handler.currentReference>>
         \o returnedReferences(getReference(handler, objects[k]), objects,
                               k + 1)

\* The handler as a record.
Handler ==
    [registry |-> [referenceToObject |-> referenceToObject,
                   objectToReference |-> objectToReference],
     currentReference |-> currentReference]

\* VariableHandler.invalidateRuntime()
invalidateRuntime ==
    [registry |-> set(EmptyRegistry, astRoot, AST_ROOT_VARIABLES_REFERENCE),
     currentReference |-> 2]

\* VariableHandler.updateRuntime(processedRuntimeState)
updateRuntime(g) ==
    [registry |-> set(set(EmptyRegistry, astRoot,
                          AST_ROOT_VARIABLES_REFERENCE),
                      runtimeStateRoot(g),
                      RUNTIME_STATE_ROOT_VARIABLES_REFERENCE),
     currentReference |-> 3]

\* No call made to the handler.
NoVariablesCall == [op |-> "constructor", variablesReference |-> 0,
                    found |-> FALSE]

\* VariableHandler.constructor(processedAst), which seeds the registry as
\* invalidateRuntime does.
VariableHandlerInit ==
    /\ referenceToObject = invalidateRuntime.registry.referenceToObject
    /\ objectToReference = invalidateRuntime.registry.objectToReference
    /\ currentReference = 2
    /\ processedRuntimeState = 0
    /\ runtimeStates = 0
    /\ variablesCall = NoVariablesCall


\* No stackTrace request received.
NoStackTraceCall ==
    [stack |-> <<>>, startFrame |-> -1, levels |-> -1, failed |-> FALSE,
     stackFrames |-> <<>>, totalFrames |-> 0]
FrameInit == stackTraceCall = NoStackTraceCall
\* No request sent to the language runtime.
LrdpInit == initializeExecutionRequests = 0
\* No initialize request and no enableStep request accepted.
NoInitializeArgs ==
    [defined |-> FALSE, linesStartAt1 |-> "undefined",
     columnsStartAt1 |-> "undefined"]
ArgsInit == initializeArgs = NoInitializeArgs /\ enabledStep = 0
\* No motion request was received.
OperationsInit == operations = <<>> /\ calls = <<>>

Init ==
    /\ CoreInit /\ SessionInit /\ ManagerInit /\ VariableHandlerInit
    /\ FrameInit /\ LrdpInit /\ ArgsInit /\ OperationsInit

\* An initialization that reports a stop on start whatever pauseOnStart is.
initializeExecutionOutcome_alwaysOnStart(done, onStart, onEnd) ==
    IF done THEN endOutcome(onEnd) ELSE Stop("start")
\* What initializeExecution reports once the first list of available steps
\* is known: the end of an execution without steps, or the stop on start.
initializeExecutionOutcome(done, onStart, onEnd) ==
    IF done THEN endOutcome(onEnd)
    ELSE IF onStart THEN Stop("start")
    ELSE Goto("idle")

\* A launch that starts run() whether or not the execution is done.
LaunchRuns_ignoringDone(onStart, done) == ~onStart
\* launchRequest: "if (!args.pauseOnStart && !this.runtime.isExecutionDone)
\* this.runtime.run()".
LaunchRuns(onStart, done) == ~onStart /\ ~done

\* launchRequest.  The runtime is constructed and initialized: the step
\* manager is built from the first list of available steps, the flags are
\* set as in initExecution, and run() is started unless the launch pauses
\* on start.
LaunchRequest ==
    /\ phase = "created"
    /\ \E onStart \in BOOLEAN, onEnd \in BOOLEAN, skip \in BOOLEAN,
          steps \in RtInitialLists :
        LET done == Len(steps) = 0
            io == initializeExecutionOutcome(done, onStart, onEnd)
            sent == io.kind = "terminated"
            ro == IF ~LaunchRuns(onStart, done) THEN Goto("idle")
                  ELSE IF done THEN doneOutcome(sent)
                  ELSE Goto("top")
        IN  /\ phase' = "launched"
            /\ pauseOnStart' = onStart
            /\ pauseOnEnd' = onEnd
            /\ skipRedundantPauses' = skip
            /\ noDebug' = FALSE
            /\ availableSteps' = steps
            /\ selectedStep' = FirstOrNone(steps)
            /\ stack' = <<>>
            /\ availableStepsLocations' = {}
            /\ isExecutionDone' = done
            /\ pauseRequired' = FALSE
            /\ pausedOnCurrentStep' = TRUE
            /\ terminatedEventSent' = sent
            /\ events' = (IF EmitsEvent(io) THEN <<io.reason>> ELSE <<>>)
                         \o (IF EmitsEvent(ro) THEN <<ro.reason>> ELSE <<>>)
            /\ lastError' = IF ro.kind = "error" THEN ro.reason ELSE "none"
            /\ task' = IF ro.kind = "goto" /\ ro.reason = "top"
                       THEN [NewTask("launch", "run", FALSE) EXCEPT !.pc = "top"]
                       ELSE NoTask
            /\ rtAvail' = steps
            /\ rtStack' = <<>>
            /\ nextId' = Len(steps) + 1
            /\ hist' = [hist EXCEPT
                  !.initialSteps = Len(steps),
                  !.stoppedOn = IF io.kind = "stop" THEN FirstOrNone(steps).id
                                ELSE 0,
                  !.launchEvents =
                      (IF EmitsEvent(io) THEN <<io.reason>> ELSE <<>>)
                      \o (IF EmitsEvent(ro) THEN <<ro.reason>> ELSE <<>>)]
    /\ UNCHANGED <<bpVars, inflight, requests>>
    /\ UNCHANGED componentVars

\* -------------------------------------------------------- motion requests
\* A run() that keeps a pause requested before it was called.
ContinueRequest_keepsPause ==
    /\ CanStart
    /\ requests' = requests + 1
    /\ IF isExecutionDone
       THEN Conclude(doneOutcome(terminatedEventSent),
                     NewTask("run", "none", noDebug),
                     pausedOnCurrentStep, NewOp(hist, "continue"),
                     selectedStep.id)
       ELSE Conclude(Goto("top"), NewTask("run", "run", noDebug),
                     pausedOnCurrentStep, NewOp(hist, "continue"),
                     selectedStep.id)
    /\ UNCHANGED <<configVars, availableSteps, selectedStep, stack,
                   availableStepsLocations, isExecutionDone, pauseRequired,
                   bpVars, inflight, rtVars>>
    /\ UNCHANGED componentVars
\* continueRequest -> run()
ContinueRequest ==
    /\ CanStart
    /\ requests' = requests + 1
    /\ IF isExecutionDone
       THEN /\ Conclude(doneOutcome(terminatedEventSent),
                        NewTask("run", "none", noDebug),
                        pausedOnCurrentStep, NewOp(hist, "continue"),
                        selectedStep.id)
            /\ UNCHANGED pauseRequired
       ELSE /\ Conclude(Goto("top"), NewTask("run", "run", noDebug),
                        pausedOnCurrentStep, NewOp(hist, "continue"),
                        selectedStep.id)
            /\ pauseRequired' = FALSE
    /\ UNCHANGED <<configVars, availableSteps, selectedStep, stack,
                   availableStepsLocations, isExecutionDone, bpVars,
                   inflight, rtVars>>
    /\ UNCHANGED componentVars

\* nextRequest -> nextStep()
NextRequest ==
    /\ CanStart
    /\ requests' = requests + 1
    /\ IF isExecutionDone
       THEN /\ Conclude(doneOutcome(terminatedEventSent),
                        NewTask("nextStep", "none", FALSE),
                        pausedOnCurrentStep, NewOp(hist, "next"),
                        selectedStep.id)
            /\ UNCHANGED pauseRequired
       ELSE IF selectedStep = NoStep
       THEN /\ Conclude(Throw("No step enabled."),
                        NewTask("nextStep", "none", FALSE),
                        pausedOnCurrentStep, NewOp(hist, "next"),
                        selectedStep.id)
            /\ UNCHANGED pauseRequired
       ELSE /\ Conclude(Goto("top"),
                        [NewTask("nextStep", "target", FALSE)
                            EXCEPT !.targetStep = selectedStep.id],
                        pausedOnCurrentStep, NewOp(hist, "next"),
                        selectedStep.id)
            /\ pauseRequired' = FALSE
    /\ UNCHANGED <<configVars, availableSteps, selectedStep, stack,
                   availableStepsLocations, isExecutionDone, bpVars,
                   inflight, rtVars>>
    /\ UNCHANGED componentVars

\* stepInRequest -> stepIn()
StepInRequest ==
    /\ CanStart
    /\ requests' = requests + 1
    /\ IF isExecutionDone
       THEN Conclude(doneOutcome(terminatedEventSent),
                     NewTask("stepIn", "none", FALSE),
                     pausedOnCurrentStep, NewOp(hist, "stepIn"),
                        selectedStep.id)
       ELSE IF selectedStep = NoStep
       THEN Conclude(Throw("No step currently enabled."),
                     NewTask("stepIn", "none", FALSE),
                     pausedOnCurrentStep, NewOp(hist, "stepIn"),
                        selectedStep.id)
       ELSE Conclude(Goto("find"),
                     [NewTask("stepIn", "none", FALSE)
                         EXCEPT !.cur = selectedStep],
                     pausedOnCurrentStep, NewOp(hist, "stepIn"),
                        selectedStep.id)
    /\ UNCHANGED <<configVars, availableSteps, selectedStep, stack,
                   availableStepsLocations, isExecutionDone, pauseRequired,
                   bpVars, inflight, rtVars>>
    /\ UNCHANGED componentVars

\* stepOut(): what follows "this.pauseRequired = false".  With an empty
\* stack it is _run(false); otherwise the parent step is read at
\* stack[stack.length], which is undefined, and reading its id throws.
stepOutOutcome(stk) ==
    IF Len(stk) = 0 THEN Goto("top")
    ELSE Throw("TypeError: Cannot read properties of undefined (reading 'id')")

\* stepOutRequest -> stepOut()
StepOutRequest ==
    /\ CanStart
    /\ requests' = requests + 1
    /\ IF isExecutionDone
       THEN /\ Conclude(doneOutcome(terminatedEventSent),
                        NewTask("stepOut", "none", FALSE),
                        pausedOnCurrentStep, NewOp(hist, "stepOut"),
                        selectedStep.id)
            /\ UNCHANGED pauseRequired
       ELSE /\ Conclude(stepOutOutcome(stack),
                        NewTask("stepOut", "run", FALSE),
                        pausedOnCurrentStep, NewOp(hist, "stepOut"),
                        selectedStep.id)
            /\ pauseRequired' = FALSE
    /\ UNCHANGED <<configVars, availableSteps, selectedStep, stack,
                   availableStepsLocations, isExecutionDone, bpVars,
                   inflight, rtVars>>
    /\ UNCHANGED componentVars

\* ------------------------------------------------------ the step protocol
\* Head of the while loop of _run and of nextStep.
LoopTop ==
    /\ Launched
    /\ task.pc = "top"
    /\ Conclude(loopTopOutcome(task), [task EXCEPT !.cur = selectedStep],
                pausedOnCurrentStep, hist, selectedStep.id)
    /\ UNCHANGED <<configVars, availableSteps, selectedStep, stack,
                   availableStepsLocations, isExecutionDone, pauseRequired,
                   bpVars, inflight, rtVars, requests>>
    /\ UNCHANGED componentVars

\* Breakpoints checkBreakpoints would ask the runtime about: those not
\* remembered as already activated.
BreakpointsToCheck == breakpoints \ activatedBreakpoints

\* Head of enterCompositeStep (for a composite step) and of
\* executeAtomicStep (for an atomic one): the breakpoints are checked, or
\* the step is requested at once.  A check that has no breakpoint to ask
\* about returns undefined without suspending, and forgets the activated
\* breakpoints.
BeginStep ==
    /\ Launched
    /\ task.pc = "find"
    /\ LET check == MustCheckBreakpoints(task.noDebug, pausedOnCurrentStep,
                                         skipRedundantPauses)
           asks == check /\ BreakpointsToCheck # {}
       IN  /\ inflight' = Append(inflight,
                IF asks THEN [kind |-> "checkBreakpoint", step |-> task.cur.id]
                ELSE StepRequest(task.cur))
           /\ task' = [task EXCEPT !.pc = IF asks THEN "check" ELSE "step"]
           /\ activatedBreakpoints' = IF check /\ ~asks THEN {}
                                      ELSE activatedBreakpoints
           /\ hist' = IF asks THEN hist
                      ELSE Sent(hist, task, task.cur, check)
    /\ UNCHANGED <<configVars, engineVars, breakpoints, rtVars, events,
                   lastError, requests>>
    /\ UNCHANGED componentVars

\* checkBreakpoints returns: the runtime activated one of the breakpoints
\* asked about (the operation stops with reason breakpoint), or none, and
\* then the step is requested.
RespCheckBreakpoints ==
    /\ Launched
    /\ task.pc = "check"
    /\ Len(inflight) > 0
    /\ Head(inflight).kind = "checkBreakpoint"
    /\ \E b \in {0} \cup BreakpointsToCheck :
        IF b # 0
        THEN /\ activatedBreakpoints' = activatedBreakpoints \cup {b}
             /\ inflight' = Tail(inflight)
             /\ Conclude(Stop("breakpoint"), task, pausedOnCurrentStep, hist,
                         task.cur.id)
        ELSE /\ activatedBreakpoints' = {}
             /\ inflight' = Append(Tail(inflight), StepRequest(task.cur))
             /\ Conclude(Goto("step"), task, pausedOnCurrentStep,
                         Sent(hist, task, task.cur, TRUE), 0)
    /\ UNCHANGED <<configVars, availableSteps, selectedStep, stack,
                   availableStepsLocations, isExecutionDone, pauseRequired,
                   breakpoints, rtVars, requests>>
    /\ UNCHANGED componentVars

\* lrProxy.enterCompositeStep returns; getAvailableSteps is requested.
RespEnterCompositeStep ==
    /\ Launched
    /\ task.pc = "step"
    /\ Len(inflight) > 0
    /\ Head(inflight).kind = "enterCompositeStep"
    /\ RtCanEnter(task.cur)
    /\ \E r \in RtEnterResults(task.cur) :
        /\ rtStack' = r.stack
        /\ rtAvail' = r.avail
        /\ nextId' = nextId + Len(r.avail)
    /\ inflight' = Append(Tail(inflight), [kind |-> "getAvailableSteps", step |-> 0])
    /\ task' = [task EXCEPT !.pc = "avail", !.resp = <<>>]
    /\ UNCHANGED <<configVars, engineVars, bpVars, events, lastError,
                   requests, hist>>
    /\ UNCHANGED componentVars

\* lrProxy.executeAtomicStep returns the completed steps;
\* getAvailableSteps is requested.
RespExecuteAtomicStep ==
    /\ Launched
    /\ task.pc = "step"
    /\ Len(inflight) > 0
    /\ Head(inflight).kind = "executeAtomicStep"
    /\ RtCanExecute(task.cur)
    /\ \E r \in RtExecuteResults(task.cur) :
        /\ rtStack' = r.stack
        /\ rtAvail' = r.avail
        /\ nextId' = nextId + Len(r.avail)
        /\ task' = [task EXCEPT !.pc = "avail", !.resp = r.completedSteps]
        /\ hist' = [hist EXCEPT !.targetReported =
                      @ \/ (task.loop = "target"
                            /\ task.targetStep \in Range(r.completedSteps))]
    /\ inflight' = Append(Tail(inflight), [kind |-> "getAvailableSteps", step |-> 0])
    /\ UNCHANGED <<configVars, engineVars, bpVars, events, lastError,
                   requests>>
    /\ UNCHANGED componentVars

\* The runtime answers a step request for a step it does not offer with a
\* JSON-RPC error; Proxy.request throws it from the transport callback, and
\* the session does not survive.
RespStepError ==
    /\ Launched
    /\ task.pc = "step"
    /\ Len(inflight) > 0
    /\ \/ Head(inflight).kind = "enterCompositeStep" /\ ~RtCanEnter(task.cur)
       \/ Head(inflight).kind = "executeAtomicStep" /\ ~RtCanExecute(task.cur)
    /\ task' = [task EXCEPT !.pc = "crashed"]
    /\ lastError' = "LRDP error"
    /\ inflight' = <<>>
    /\ UNCHANGED <<configVars, engineVars, bpVars, rtVars, events, requests,
                   hist>>
    /\ UNCHANGED componentVars

\* The request the operation awaits fails at the transport level: the
\* callback of Proxy.request is called with `err` and throws from the
\* transport's call stack; the promise the operation awaits is neither
\* resolved nor rejected, so the operation never goes on, and the error
\* reaches no handler of the session.
TransportFailure ==
    /\ Launched
    /\ task.pc \in {"check", "step", "avail"}
    /\ Len(inflight) > 0
    /\ task' = [task EXCEPT !.pc = "crashed"]
    /\ lastError' = "transport failure"
    /\ inflight' = <<>>
    /\ UNCHANGED <<configVars, engineVars, bpVars, rtVars, events, requests,
                   hist>>
    /\ UNCHANGED componentVars

\* An end of execution declared while one step is still available.
executionDoneAfter_oneLeft(failed, done, steps) ==
    IF failed THEN done ELSE Len(steps) <= 1
\* _isExecutionDone once updateAvailableSteps returned or threw: it is
\* assigned after StepManager.update, from the list the runtime returned.
executionDoneAfter(failed, done, steps) ==
    IF failed THEN done ELSE Len(steps) = 0

\* What the operation does once updateAvailableSteps returned (failed =
\* FALSE) or threw (failed = TRUE; the catch blocks of the operations drop
\* any error that is neither a choice nor a breakpoint).
afterUpdateOutcome(t, failed, steps, done) ==
    IF t.op = "stepIn" THEN stepInOutcome(done, pauseOnEnd)
    ELSE IF t.cur.isComposite /\ ~failed THEN afterEnterOutcome(steps)
    ELSE bottomOutcome(steps)

\* getAvailableSteps returns inside updateAvailableSteps: the step manager
\* is updated, the location of the newly selected step is requested without
\* awaiting it, and enterCompositeStep or executeAtomicStep finishes.
RespGetAvailableSteps ==
    /\ Launched
    /\ task.pc = "avail"
    /\ Len(inflight) > 0
    /\ Head(inflight).kind = "getAvailableSteps"
    /\ LET u == update(rtAvail, task.resp)
           failed == u.error # "none"
           done == executionDoneAfter(failed, isExecutionDone, rtAvail)
           t == [task EXCEPT
                   !.cur = IF failed THEN @ ELSE u.selectedStep,
                   !.completedSteps = IF failed \/ task.cur.isComposite
                                      THEN @ ELSE task.resp,
                   !.resp = <<>>]
       IN  /\ stack' = u.stack
           /\ availableSteps' = u.availableSteps
           /\ selectedStep' = u.selectedStep
           /\ availableStepsLocations' = u.locations
           /\ isExecutionDone' = done
           /\ inflight' = IF failed \/ done THEN Tail(inflight)
                          ELSE Append(Tail(inflight),
                                 [kind |-> "getStepLocation",
                                  step |-> u.selectedStep.id])
           /\ Conclude(afterUpdateOutcome(task, failed, u.availableSteps, done),
                       t, IF failed THEN pausedOnCurrentStep ELSE FALSE,
                       IF failed THEN hist
                       ELSE [hist EXCEPT !.stepsSinceStop = 1],
                       u.selectedStep.id)
    /\ UNCHANGED <<configVars, pauseRequired, bpVars, rtVars, requests>>
    /\ UNCHANGED componentVars

\* getStepLocation returns inside getEnabledStepLocation: the location is
\* stored under the step that is selected now.
RespGetStepLocation ==
    /\ Suspended
    /\ Len(inflight) > 0
    /\ Head(inflight).kind = "getStepLocation"
    /\ inflight' = Tail(inflight)
    /\ availableStepsLocations' =
          IF selectedStep = NoStep THEN availableStepsLocations
          ELSE SetLocation(availableStepsLocations, selectedStep,
                           Head(inflight).step)
    /\ UNCHANGED <<configVars, availableSteps, selectedStep, stack,
                   isExecutionDone, terminatedEventSent, pauseRequired,
                   pausedOnCurrentStep, bpVars, task, rtVars, events,
                   lastError, requests, hist>>
    /\ UNCHANGED componentVars

\* ------------------------------------------------------ other IDE requests
\* pauseRequest -> pause()
PauseRequest ==
    /\ CanRequest
    /\ requests' = requests + 1
    /\ pauseRequired' = TRUE
    /\ hist' = [hist EXCEPT
                  !.requestWhenDone = IF isExecutionDone THEN "pause"
                                       ELSE "none",
                  !.pausesInOp = IF task.pc = "idle" \/ @ = 2 THEN @ ELSE @ + 1,
                  !.pauseAtExec = IF task.pc = "idle" \/ hist.pausesInOp > 0
                                  THEN @
                                  ELSE task.pc \in {"step", "avail"}
                                       /\ ~task.cur.isComposite]
    /\ UNCHANGED <<configVars, availableSteps, selectedStep, stack,
                   availableStepsLocations, isExecutionDone,
                   terminatedEventSent, pausedOnCurrentStep, bpVars, task,
                   inflight, rtVars, events, lastError>>
    /\ UNCHANGED componentVars

\* The enableStep custom request -> StepManager.selectStep(stepId)
SelectStepRequest ==
    /\ CanRequest
    /\ requests' = requests + 1
    /\ \E id \in IdsOf(availableSteps) : selectedStep' = selectStep(id)
    /\ hist' = [hist EXCEPT !.requestWhenDone =
                                IF isExecutionDone THEN "enableStep"
                                ELSE "none"]
    /\ UNCHANGED <<configVars, availableSteps, stack,
                   availableStepsLocations, isExecutionDone,
                   terminatedEventSent, pauseRequired, pausedOnCurrentStep,
                   bpVars, task, inflight, rtVars, events, lastError>>
    /\ UNCHANGED componentVars

\* stackTraceRequest asks for the location of the selected step
\* (getEnabledStepLocation): it is requested from the runtime unless the
\* execution is done or the location is cached.
StackTraceRequest ==
    /\ CanRequest
    /\ requests' = requests + 1
    /\ inflight' =
          IF ~isExecutionDone /\ selectedStep # NoStep
             /\ ~HasLocation(availableStepsLocations, selectedStep)
          THEN Append(inflight, [kind |-> "getStepLocation",
                                 step |-> selectedStep.id])
          ELSE inflight
    /\ hist' = [hist EXCEPT !.requestWhenDone =
                                IF isExecutionDone THEN "stackTrace"
                                ELSE "none"]
    /\ UNCHANGED <<configVars, engineVars, bpVars, task, rtVars, events,
                   lastError>>
    /\ UNCHANGED componentVars

\* setBreakPointsRequest -> setBreakpoints: the breakpoints are replaced; a
\* breakpoint that stays keeps being remembered as activated.
SetBreakpointsRequest ==
    /\ CanRequest
    /\ requests' = requests + 1
    /\ \E bs \in SUBSET BpIds :
        /\ bs # breakpoints
        /\ breakpoints' = bs
        /\ activatedBreakpoints' = activatedBreakpoints \cap bs
    /\ hist' = [hist EXCEPT !.requestWhenDone =
                                IF isExecutionDone THEN "setBreakpoints"
                                ELSE "none"]
    /\ UNCHANGED <<configVars, engineVars, task, inflight, rtVars, events,
                   lastError>>
    /\ UNCHANGED componentVars

Next ==
    \/ LaunchRequest
    \/ ContinueRequest
    \/ NextRequest
    \/ StepInRequest
    \/ StepOutRequest
    \/ PauseRequest
    \/ SelectStepRequest
    \/ StackTraceRequest
    \/ SetBreakpointsRequest
    \/ LoopTop
    \/ BeginStep
    \/ RespCheckBreakpoints
    \/ RespEnterCompositeStep
    \/ RespExecuteAtomicStep
    \/ RespStepError
    \/ TransportFailure
    \/ RespGetAvailableSteps
    \/ RespGetStepLocation

Spec == Init /\ [][Next]_vars

\* A launch after which the IDE sends nothing: the operation started by
\* launchRequest goes on by itself.  The event loop runs every continuation
\* that is ready and the language runtime answers every request it
\* receives, hence the weak fairness of the steps of the operation.
RunInit == Init

OperationStep ==
    \/ LoopTop
    \/ BeginStep
    \/ RespEnterCompositeStep
    \/ RespExecuteAtomicStep
    \/ RespStepError
    \/ RespGetAvailableSteps
    \/ RespGetStepLocation

RunNext ==
    \/ LaunchRequest
    \/ LoopTop
    \/ BeginStep
    \/ RespEnterCompositeStep
    \/ RespExecuteAtomicStep
    \/ RespStepError
    \/ TransportFailure
    \/ RespGetAvailableSteps
    \/ RespGetStepLocation

RunSpec == RunInit /\ [][RunNext]_vars /\ WF_vars(OperationStep)

\* ---------------------------------------------------------- session layer
\* CustomDebugSession as the IDE sees it: the requests it dispatches and the
\* responses and events it sends.  A handler declared async that throws
\* rejects its promise and sends nothing; the operations of the runtime are
\* represented by the events they send.  Before launchRequest has
\* constructed the runtime the IDE sends only initialize, launch and
\* setBreakpoints; it sends launch once, and a motion request only when no
\* operation is in progress.

\* Number of IDE requests of a session.
MaxDapRequests == 4

\* new Response(request) answered with sendResponse (ok) or
\* sendErrorResponse; `request` is the position of the request in `received`.
Response(request, ok) ==
    [type |-> "response", request |-> request,
     name |-> IF ok THEN "success" ELSE "error", id |-> 0]
\* sendErrorResponse(response, {id, ...})
ErrorResponse(request, id) ==
    [type |-> "response", request |-> request, name |-> "error", id |-> id]
\* An event, with the request whose handling sent it.
Event(request, name) ==
    [type |-> "event", request |-> request, name |-> name, id |-> 0]

\* A handler suspended at `at`: "initializeExecution" (launchRequest),
\* "setBreakpoints" (runtime.setBreakpoints before the breakpoint manager
\* exists), "waitForInitialization", "getRuntimeState" (updateRuntimeState),
\* or "operation" (run, nextStep, stepIn or stepOut in progress).
Awaiting(request, command, at, args) ==
    [request |-> request, command |-> command, at |-> at, args |-> args]
\* Arguments the handlers do not read after their await.
NoArguments == [keys |-> {}, stepId |-> 0]

AwaitingAt(at) == SelectSeq(awaiting, LAMBDA h : h.at = at)
NotAwaitingAt(at) == SelectSeq(awaiting, LAMBDA h : h.at # at)

CanDispatch == Len(received) < MaxDapRequests
\* The request being dispatched and its record: `early` when it is
\* dispatched by an initialized session before initializeExecution returned.
ThisRequest == Len(received) + 1
ReceiveWith(command, exact) ==
    received' = Append(received,
                       [command |-> command,
                        early |-> isInitialized /\ runtime # "initialized",
                        exact |-> exact])
Receive(command) == ReceiveWith(command, TRUE)
\* Requests other than initialize.
OtherCommands ==
    {"launch", "setBreakpoints", "threads", "continue", "enableStep"}

\* dispatchRequest for a session that is not initialized: error 200.
dispatchRequest ==
    /\ CanDispatch
    /\ ~isInitialized
    /\ \E command \in OtherCommands : Receive(command)
    /\ sentMessages' = Append(sentMessages, ErrorResponse(ThisRequest, 200))
    /\ UNCHANGED <<notSessionVars, isInitialized, runtime, awaiting>>

\* DebugProtocol.InitializeRequestArguments: linesStartAt1 and
\* columnsStartAt1, "undefined" when the IDE leaves them out.
InitializeRequestArguments ==
    {[defined |-> TRUE, linesStartAt1 |-> l, columnsStartAt1 |-> l] :
        l \in {"true", "undefined"}}

\* An initializeRequest that stores its arguments whenever it is received.
storedArguments_always(initialized, stored, args) == args
\* this.initializeArgs after initializeRequest(response, args).
storedArguments(initialized, stored, args) ==
    IF initialized THEN stored ELSE args

\* initializeRequest: error 201 when already initialized; otherwise the
\* response, then the initialized event.
initializeRequest ==
    /\ CanDispatch
    /\ Receive("initialize")
    /\ IF isInitialized
       THEN /\ sentMessages' = Append(sentMessages, ErrorResponse(ThisRequest, 201))
            /\ UNCHANGED isInitialized
       ELSE /\ sentMessages' = sentMessages \o
                  <<Response(ThisRequest, TRUE), Event(ThisRequest, "initialized")>>
            /\ isInitialized' = TRUE
    /\ \E args \in InitializeRequestArguments :
          initializeArgs' = storedArguments(isInitialized, initializeArgs, args)
    /\ UNCHANGED <<notArgsVars, enabledStep, runtime, awaiting>>

\* The body of launchRequest: the response is sent first; with noDebug the
\* handler throws; otherwise a runtime is constructed, which replaces the
\* runtime of the session if there is one, and its initializeExecution is
\* awaited: it sends initializeExecution to the language runtime once.
launch ==
    /\ Receive("launch")
    /\ sentMessages' = Append(sentMessages, Response(ThisRequest, TRUE))
    /\ \E argsNoDebug \in BOOLEAN :
        IF argsNoDebug
        THEN UNCHANGED <<runtime, awaiting, initializeExecutionRequests>>
        ELSE /\ runtime' = "initializing"
             /\ awaiting' = Append(awaiting,
                   Awaiting(ThisRequest, "launch", "initializeExecution", NoArguments))
             /\ initializeExecutionRequests' = initializeExecutionRequests + 1
    /\ UNCHANGED <<notLrdpVars, isInitialized>>

\* launchRequest received by a session that has no runtime.
launchRequest ==
    /\ CanDispatch
    /\ isInitialized
    /\ runtime = "undefined"
    /\ launch

\* launchRequest received by a session that has a runtime already.
launchRequestAgain ==
    /\ CanDispatch
    /\ isInitialized
    /\ runtime # "undefined"
    /\ launch

\* runtime.waitForInitialization() is resolved.
waitForInitialization == runtime = "initialized"

\* The responses of the setBreakpoints requests queued during
\* initialization, in the order the requests were received.
deferredBreakpointsResponses(queued) ==
    [i \in 1..Len(queued) |-> Response(queued[i].request, TRUE)]

\* What initializeExecution sends when it returns, and whether launchRequest
\* then calls run(): "run" stands for an execution that has steps and does
\* not pause on start.
InitializationOutcomes == {"start", "end", "terminated", "run"}

\* initializeExecution returns for the earliest launch that awaits it: the
\* queued setBreakpoints requests are answered, the outcome of the
\* initialization is reported, and launchRequest goes on.  The runtime of
\* the session is initialized once no later launch awaits.
initializeExecutionReturns ==
    /\ runtime = "initializing"
    /\ LET launched == AwaitingAt("initializeExecution")[1]
           others == Tail(AwaitingAt("initializeExecution"))
       IN  \E outcome \in InitializationOutcomes :
            /\ runtime' = IF Len(others) = 0 THEN "initialized"
                          ELSE "initializing"
            /\ sentMessages' = sentMessages
                  \o deferredBreakpointsResponses(AwaitingAt("setBreakpoints"))
                  \o (IF outcome = "run" THEN <<>>
                      ELSE <<Event(launched.request, outcome)>>)
            /\ awaiting' =
                  SelectSeq(awaiting,
                            LAMBDA h : h # launched /\ h.at # "setBreakpoints")
                  \o (IF outcome = "run"
                      THEN <<Awaiting(launched.request, "launch", "operation", NoArguments)>>
                      ELSE <<>>)
    /\ UNCHANGED <<notSessionVars, isInitialized, received>>

\* setBreakPointsRequest, for the source file being debugged.  Without a
\* runtime, reading this.runtime.sourceFile throws and nothing is sent;
\* during the initialization runtime.setBreakpoints is awaited until the
\* initialization is over; afterwards the response is sent at once.
setBreakPointsRequest ==
    /\ CanDispatch
    /\ isInitialized
    /\ Receive("setBreakpoints")
    /\ IF runtime = "undefined"
       THEN UNCHANGED <<sentMessages, awaiting>>
       ELSE IF runtime = "initializing"
       THEN /\ awaiting' = Append(awaiting,
                  Awaiting(ThisRequest, "setBreakpoints", "setBreakpoints", NoArguments))
            /\ UNCHANGED sentMessages
       ELSE /\ sentMessages' = Append(sentMessages, Response(ThisRequest, TRUE))
            /\ UNCHANGED awaiting
    /\ UNCHANGED <<notSessionVars, isInitialized, runtime>>

\* pauseRequest: the response, then runtime.pause().
pauseRequest ==
    /\ CanDispatch
    /\ isInitialized
    /\ runtime # "undefined"
    /\ Receive("pause")
    /\ sentMessages' = Append(sentMessages, Response(ThisRequest, TRUE))
    /\ UNCHANGED <<notSessionVars, isInitialized, runtime, awaiting>>

\* How the operation called by a motion request starts: the execution is
\* done and terminated is sent again, or the operation throws at once, or
\* it is in progress when the handler returns.
OperationStarts == {"terminated", "throws", "in progress"}

\* continueRequest, nextRequest, stepInRequest and stepOutRequest: the
\* response, then run(), nextStep(), stepIn() or stepOut(), not awaited.
motionRequest ==
    /\ CanDispatch
    /\ isInitialized
    /\ waitForInitialization
    /\ Len(AwaitingAt("operation")) = 0
    /\ \E command \in {"continue", "next", "stepIn", "stepOut"},
          start \in OperationStarts :
        /\ Receive(command)
        /\ sentMessages' = sentMessages \o <<Response(ThisRequest, TRUE)>>
              \o (IF start = "terminated"
                  THEN <<Event(ThisRequest, "terminated")>> ELSE <<>>)
        /\ awaiting' = IF start = "in progress"
                       THEN Append(awaiting,
                              Awaiting(ThisRequest, command, "operation", NoArguments))
                       ELSE awaiting
    /\ UNCHANGED <<notSessionVars, isInitialized, runtime>>

\* The operation in progress returns: it has sent a stopped or a terminated
\* event, or it has dropped an error and sent nothing.
operationReturns ==
    /\ Len(AwaitingAt("operation")) > 0
    /\ LET operation == AwaitingAt("operation")[1]
       IN  \E event \in {"stopped", "terminated", "none"} :
              sentMessages' = IF event = "none" THEN sentMessages
                              ELSE Append(sentMessages,
                                          Event(operation.request, event))
    /\ awaiting' = NotAwaitingAt("operation")
    /\ UNCHANGED <<notSessionVars, isInitialized, runtime, received>>

CustomCommands == {"enableStep", "getAvailableSteps", "unknown"}

\* The arguments of a custom request: the own keys of the object, and the
\* value of stepId.
ArgumentKeys == {"sourceFile", "stepId", "other"}
CustomArguments == {[keys |-> k, stepId |-> 1] : k \in SUBSET ArgumentKeys}

\* hasProperties(object, properties)
hasProperties(object, properties) ==
    \A property \in properties : property \in object.keys
\* isArguments(args)
isArguments(args) == hasProperties(args, {"sourceFile"})
\* isGetAvailableStepsArguments(args)
isGetAvailableStepsArguments(args) ==
    Cardinality(args.keys) = 1 /\ isArguments(args)
\* A check of the number of keys only.
isEnableStepArguments_countingOnly(args) == Cardinality(args.keys) = 2
\* isEnableStepArguments(args)
isEnableStepArguments(args) ==
    Cardinality(args.keys) = 2 /\ hasProperties(args, {"sourceFile", "stepId"})

\* createMalformedArgumentsError and the default case of handle.
CustomRequestError ==
    [status |-> "error", response |-> FALSE, event |-> FALSE, id |-> 100,
     enabledStep |-> 0]

\* CustomRequestHandler.handle: what the result carries, and the step
\* runtime.enableStep was called with (0: not called).
handle(command, args) ==
    IF command = "getAvailableSteps"
    THEN IF ~isGetAvailableStepsArguments(args) THEN CustomRequestError
         ELSE [status |-> "success", response |-> TRUE, event |-> FALSE,
               id |-> 0, enabledStep |-> 0]
    ELSE IF command = "enableStep"
    THEN IF ~isEnableStepArguments(args) THEN CustomRequestError
         ELSE [status |-> "success", response |-> FALSE, event |-> TRUE,
               id |-> 0, enabledStep |-> args.stepId]
    ELSE CustomRequestError

\* The keys the arguments of a command are expected to have.
ExpectedKeys(command) ==
    IF command = "enableStep" THEN {"sourceFile", "stepId"} ELSE {"sourceFile"}
\* The own keys of the arguments are exactly the expected ones.
ExactKeys(command, args) ==
    command \in {"enableStep", "getAvailableSteps"}
        /\ args.keys = ExpectedKeys(command)
\* The step enabled once a custom request is handled.
enabledStepAfter(customRequestResponse) ==
    IF customRequestResponse.enabledStep # 0
    THEN customRequestResponse.enabledStep ELSE enabledStep

\* customRequest after waitForInitialization: on success the event, if any,
\* then the response, if any; otherwise the error response.
customRequestMessages(request, customRequestResponse) ==
    IF customRequestResponse.status = "success"
    THEN (IF customRequestResponse.event
          THEN <<Event(request, "invalidated")>> ELSE <<>>)
         \o (IF customRequestResponse.response
             THEN <<Response(request, TRUE)>> ELSE <<>>)
    ELSE <<ErrorResponse(request, customRequestResponse.id)>>

\* customRequest
customRequest ==
    /\ CanDispatch
    /\ isInitialized
    /\ runtime # "undefined"
    /\ \E command \in CustomCommands, args \in CustomArguments :
        /\ ReceiveWith(command, ExactKeys(command, args))
        /\ IF waitForInitialization
           THEN /\ sentMessages' = sentMessages \o
                      customRequestMessages(ThisRequest, handle(command, args))
                /\ enabledStep' = enabledStepAfter(handle(command, args))
                /\ UNCHANGED awaiting
           ELSE /\ awaiting' = Append(awaiting,
                      Awaiting(ThisRequest, command, "waitForInitialization",
                               args))
                /\ UNCHANGED <<sentMessages, enabledStep>>
    /\ UNCHANGED <<notArgsVars, initializeArgs, isInitialized, runtime>>

\* threadsRequest: waitForInitialization, then updateRuntimeState, which
\* asks the language runtime for its state, then the response.
threadsRequest ==
    /\ CanDispatch
    /\ isInitialized
    /\ runtime # "undefined"
    /\ Receive("threads")
    /\ awaiting' = Append(awaiting,
          Awaiting(ThisRequest, "threads",
                   IF waitForInitialization THEN "getRuntimeState"
                   ELSE "waitForInitialization", NoArguments))
    /\ UNCHANGED <<notSessionVars, isInitialized, runtime, sentMessages>>

\* A handler awaiting waitForInitialization goes on once the initialization
\* is over, the earliest first.
waitForInitializationResolves ==
    /\ waitForInitialization
    /\ Len(AwaitingAt("waitForInitialization")) > 0
    /\ LET h == AwaitingAt("waitForInitialization")[1]
           others == SelectSeq(awaiting, LAMBDA x : x # h)
       IN  IF h.command = "threads"
           THEN /\ awaiting' = Append(others,
                      Awaiting(h.request, "threads", "getRuntimeState", NoArguments))
                /\ UNCHANGED <<sentMessages, enabledStep>>
           ELSE /\ sentMessages' = sentMessages \o
                      customRequestMessages(h.request, handle(h.command, h.args))
                /\ enabledStep' = enabledStepAfter(handle(h.command, h.args))
                /\ awaiting' = others
    /\ UNCHANGED <<notArgsVars, initializeArgs, isInitialized, runtime, received>>

\* getRuntimeState returns inside updateRuntimeState: threadsRequest sends
\* its response.
RespGetRuntimeState ==
    /\ Len(AwaitingAt("getRuntimeState")) > 0
    /\ LET h == AwaitingAt("getRuntimeState")[1]
       IN  /\ sentMessages' = Append(sentMessages, Response(h.request, TRUE))
           /\ awaiting' = SelectSeq(awaiting, LAMBDA x : x # h)
    /\ UNCHANGED <<notSessionVars, isInitialized, runtime, received>>

SessionNext ==
    \/ dispatchRequest
    \/ initializeRequest
    \/ launchRequest
    \/ initializeExecutionReturns
    \/ setBreakPointsRequest
    \/ pauseRequest
    \/ motionRequest
    \/ operationReturns
    \/ customRequest
    \/ threadsRequest
    \/ waitForInitializationResolves
    \/ RespGetRuntimeState

SessionSpec == Init /\ [][SessionNext]_vars

\* A session whose IDE may send launch again.
LaunchInit == Init

LaunchNext ==
    \/ dispatchRequest
    \/ initializeRequest
    \/ launchRequest
    \/ launchRequestAgain
    \/ initializeExecutionReturns

LaunchSpec == LaunchInit /\ [][LaunchNext]_vars

\* ------------------------------------------------------ breakpoint manager
\* CDAPBreakpointManager with domain-specific breakpoints made of entries
\* (src/unnamed/part_004, lines 433-566) and isValidBreakpoint
\* (src/unnamed/part_005, lines 536-585).  The language runtime declares
\* the breakpoint types; the parameters of a type have distinct names.

\* Longest list given to setDomainSpecificBreakpoints.
MaxBreakpoints == 2

\* Sequences over S of length at most n.
SeqsUpTo(S, n) == UNION {[1..k -> S] : k \in 0..n}

\* LRDP.BreakpointParameter
PrimitiveBreakpointParameter(name, primitiveType, isMultivalued) ==
    [type |-> "primitive", name |-> name, isMultivalued |-> isMultivalued,
     primitiveType |-> primitiveType, elementType |-> ""]
ElementBreakpointParameter(name, elementType, isMultivalued) ==
    [type |-> "element", name |-> name, isMultivalued |-> isMultivalued,
     primitiveType |-> "", elementType |-> elementType]

\* Catalogs of breakpoint types a language runtime may declare: for each
\* type id, the parameters of the type.
Catalogs ==
    { ("t1" :> <<ElementBreakpointParameter("p", "A", FALSE)>>),
      ("t1" :> <<PrimitiveBreakpointParameter("p", "number", TRUE)>>)
        @@ ("t2" :> <<ElementBreakpointParameter("p", "B", TRUE),
                      PrimitiveBreakpointParameter("q", "string", FALSE)>>),
      ("t1" :> <<>>)
        @@ ("t2" :> <<PrimitiveBreakpointParameter("p", "string", FALSE)>>),
      ("t1" :> <<PrimitiveBreakpointParameter("p", "string", TRUE)>>)
        @@ ("t2" :> <<PrimitiveBreakpointParameter("p", "number", FALSE)>>) }

\* A value received in an entry, as typeof and Array.isArray see it: a
\* scalar and its typeof, or an array and the typeof of its elements.
Scalar(kind) == [isArray |-> FALSE, kinds |-> {kind}]
ArrayOf(kinds) == [isArray |-> TRUE, kinds |-> kinds]
TypeOf(value) ==
    IF value.isArray THEN "object" ELSE CHOOSE k \in value.kinds : TRUE

EntryValues ==
    {Scalar("number"), Scalar("string"), ArrayOf({}), ArrayOf({"number"}),
     ArrayOf({"string"}), ArrayOf({"string", "number"})}

\* DomainSpecificBreakpoint.entries: an object with keys among p and q; q,
\* when present, holds a string.
EntriesInputs ==
    {e \in UNION {[D -> EntryValues] : D \in SUBSET {"p", "q"}} :
        "q" \in DOMAIN e => e["q"] = Scalar("string")}

\* DAPExtension.DomainSpecificBreakpoint, as received from the IDE.
BreakpointInputs ==
    {[breakpointTypeId |-> t, entries |-> e] :
        t \in {"t1", "t2"}, e \in EntriesInputs}

\* handleMultivaluedEntry
handleMultivaluedEntry(value, parameter) ==
    IF ~value.isArray THEN FALSE
    ELSE IF parameter.type = "element" THEN value.kinds \subseteq {"string"}
    ELSE value.kinds \subseteq {parameter.primitiveType}

\* handleSinglevaluedEntry
handleSinglevaluedEntry(value, parameter) ==
    IF parameter.type = "element" THEN TypeOf(value) = "string"
    ELSE TypeOf(value) = parameter.primitiveType

\* isValidEntry
isValidEntry(value, parameter) ==
    IF parameter.isMultivalued THEN handleMultivaluedEntry(value, parameter)
    ELSE handleSinglevaluedEntry(value, parameter)

\* A validity check that does not count the entries.
isValidBreakpoint_notCounting(breakpoint, parameters) ==
    \A i \in 1..Len(parameters) :
        /\ parameters[i].name \in DOMAIN breakpoint.entries
        /\ isValidEntry(breakpoint.entries[parameters[i].name], parameters[i])
\* isValidBreakpoint(breakpoint, breakpointType), given the parameters of
\* the type.
isValidBreakpoint(breakpoint, parameters) ==
    /\ Cardinality(DOMAIN breakpoint.entries) = Len(parameters)
    /\ \A i \in 1..Len(parameters) :
        /\ parameters[i].name \in DOMAIN breakpoint.entries
        /\ isValidEntry(breakpoint.entries[parameters[i].name], parameters[i])

\* The test of the loop of setDomainSpecificBreakpoints: the type is
\* available and the breakpoint is valid for it.
Accepted(types, breakpoint) ==
    /\ breakpoint.breakpointTypeId \in DOMAIN types
    /\ isValidBreakpoint(breakpoint, types[breakpoint.breakpointTypeId])

\* CDAPBreakpointManager.setDomainSpecificBreakpoints(breakpoints): the
\* list it returns and the list it installs.
setDomainSpecificBreakpoints(types, list) ==
    [res |-> [i \in 1..Len(list) |-> Accepted(types, list[i])],
     newDomainSpecificBreakpoints |->
        SelectSeq(list, LAMBDA b : Accepted(types, b))]

\* What the setDomainSpecificBreakpoints custom request expects of the
\* manager: the breakpoint names an available type, has exactly one entry
\* per declared parameter, each of the declared kind and multiplicity.
KindOf(parameter) ==
    IF parameter.type = "element" THEN "string" ELSE parameter.primitiveType
Conforms(value, parameter) ==
    IF parameter.isMultivalued
    THEN value.isArray /\ \A k \in value.kinds : k = KindOf(parameter)
    ELSE ~value.isArray /\ value.kinds = {KindOf(parameter)}
ValidatedAgainstType(types, breakpoint) ==
    /\ breakpoint.breakpointTypeId \in DOMAIN types
    /\ LET parameters == types[breakpoint.breakpointTypeId] IN
       /\ DOMAIN breakpoint.entries
            = {parameters[i].name : i \in 1..Len(parameters)}
       /\ \A i \in 1..Len(parameters) :
            Conforms(breakpoint.entries[parameters[i].name], parameters[i])

\* The body of a response: undefined, or the list of its breakpoints.
NoBody == [defined |-> FALSE, breakpoints |-> <<>>]

\* CustomRequestHandler.setDomainSpecificBreakpoints with well-formed
\* arguments: calls the manager and returns the response it was given.
setDomainSpecificBreakpointsRequest ==
    /\ \E list \in SeqsUpTo(BreakpointInputs, MaxBreakpoints) :
        LET call == setDomainSpecificBreakpoints(availableBreakpointTypes,
                                                 list) IN
        /\ domainSpecificBreakpoints' = call.newDomainSpecificBreakpoints
        /\ managerCall' =
            [op |-> "setDomainSpecificBreakpoints",
             returned |-> call.res,
             body |-> NoBody,
             expected |-> [i \in 1..Len(list) |->
                 ValidatedAgainstType(availableBreakpointTypes,
                                      list[i])],
             expectedInstalled |-> SelectSeq(list,
                 LAMBDA b : ValidatedAgainstType(availableBreakpointTypes, b))]
    /\ UNCHANGED <<notManagerVars, availableBreakpointTypes,
                   locations, lineOffset, columnOffset>>

\* CustomRequestHandler.getDomainSpecificBreakpoints: the installed list is
\* the body of the response.
getDomainSpecificBreakpointsRequest ==
    /\ managerCall.op # "getDomainSpecificBreakpoints"
    /\ managerCall' =
        [op |-> "getDomainSpecificBreakpoints",
         returned |-> domainSpecificBreakpoints,
         body |-> [defined |-> TRUE, breakpoints |-> domainSpecificBreakpoints],
         expected |-> <<>>,
         expectedInstalled |-> domainSpecificBreakpoints]
    /\ UNCHANGED <<notManagerVars, availableBreakpointTypes,
                   domainSpecificBreakpoints, locations, lineOffset,
                   columnOffset>>

\* The manager of a runtime that declared one of the catalogs.
BreakpointsInit ==
    /\ CoreInit
    /\ SessionInit
    /\ availableBreakpointTypes \in Catalogs
    /\ domainSpecificBreakpoints = <<>>
    /\ locations = <<>>
    /\ lineOffset = 0
    /\ columnOffset = 0
    /\ managerCall = NoCall
    /\ VariableHandlerInit
    /\ FrameInit /\ LrdpInit /\ ArgsInit /\ OperationsInit

BreakpointsNext ==
    \/ setDomainSpecificBreakpointsRequest
    \/ getDomainSpecificBreakpointsRequest

BreakpointsSpec == BreakpointsInit /\ [][BreakpointsNext]_vars

\* --------------------------------------- breakpoint manager: source breakpoints
\* ASTElementLocator (src/src/astElementLocator.ts, lines 1-92) and
\* CDAPBreakpointManager.setBreakpoints (src/unnamed/part_004, lines 502-529).

\* Longest list given to setBreakpoints; last line and last column the IDE
\* sets a breakpoint at.
MaxSourceBreakpoints == 2
MaxLine == 1
MaxColumn == 1

\* LRDP.ModelElement: id, types and location; hasLocation is false for an
\* element without location.
NoLocation == [line |-> 0, column |-> 0, endLine |-> 0, endColumn |-> 0]
Location(line, column, endLine, endColumn) ==
    [line |-> line, column |-> column, endLine |-> endLine,
     endColumn |-> endColumn]
ModelElement(id, types, hasLocation, location) ==
    [id |-> id, types |-> types, hasLocation |-> hasLocation,
     location |-> location]
\* undefined, where an element is expected.
NoElement == ModelElement("undefined", {}, FALSE, NoLocation)

\* The elements of the programs debugged, in the order registerLocations
\* visits them (an element, then its children).
Asts ==
    { <<ModelElement("e0", {"A"}, TRUE, Location(0, 0, 1, 0)),
        ModelElement("e1", {"B"}, TRUE, Location(1, 1, 1, 1)),
        ModelElement("e2", {"A", "B"}, FALSE, NoLocation)>>,
      <<ModelElement("e0", {"C"}, FALSE, NoLocation),
        ModelElement("e1", {"B"}, TRUE, Location(0, 0, 0, 0)),
        ModelElement("e2", {"A", "C"}, TRUE, Location(1, 0, 1, 1))>> }

\* ASTElementLocator.registerAst: the located elements by the line they
\* start at, in visiting order.
registerAst(elements) ==
    LET located == SelectSeq(elements, LAMBDA e : e.hasLocation) IN
    [l \in {located[i].location.line : i \in 1..Len(located)} |->
        SelectSeq(located, LAMBDA e : e.location.line = l)]

\* ASTElementLocator.constructor: -!!(!linesStartAt1)
Offset(startAt1) == IF startAt1 THEN 0 ELSE -1

\* A containment that looks at the start column only on the start line.
isPositionContained_startColumnOnly(element, line, column) ==
    IF element.location.line = line
    THEN element.location.column <= column
    ELSE IF element.location.endLine = line
    THEN element.location.endColumn >= column
    ELSE element.location.line <= line /\ element.location.endLine >= line
\* ASTElementLocator.isPositionContained
isPositionContained(element, line, column) ==
    IF element.location.line = line
    THEN IF element.location.endLine = line
         THEN /\ element.location.column <= column
              /\ element.location.endColumn >= column
         ELSE element.location.column <= column
    ELSE IF element.location.endLine = line
    THEN element.location.endColumn >= column
    ELSE element.location.line <= line /\ element.location.endLine >= line

\* The loop of getElementFromPosition, from line i down to line 0.
RECURSIVE elementFromLine(_, _, _, _)
elementFromLine(manager, i, line, column) ==
    IF i < 0 THEN NoElement
    ELSE IF i \notin DOMAIN manager.locations
        THEN elementFromLine(manager, i - 1, line, column)
    ELSE LET containing == SelectSeq(manager.locations[i],
                LAMBDA e : isPositionContained(e, line + manager.lineOffset,
                                               column + manager.columnOffset))
         IN IF Len(containing) > 0 THEN containing[1]
            ELSE elementFromLine(manager, i - 1, line, column)

\* ASTElementLocator.getElementFromPosition(line, column)
getElementFromPosition(manager, line, column) ==
    elementFromLine(manager, line + manager.lineOffset, line, column)

\* A type whatever the type of the element of its first parameter.
hasPossibleBreakpointType_anyElement(manager, element) ==
    \E t \in DOMAIN manager.availableBreakpointTypes :
        LET parameters == manager.availableBreakpointTypes[t] IN
        /\ Len(parameters) > 0
        /\ parameters[1].type = "element"
\* hasPossibleBreakpointType in setBreakpoints: some available type has a
\* first parameter that is an element of one of the types of the element.
hasPossibleBreakpointType(manager, element) ==
    \E t \in DOMAIN manager.availableBreakpointTypes :
        LET parameters == manager.availableBreakpointTypes[t] IN
        /\ Len(parameters) > 0
        /\ parameters[1].type = "element"
        /\ parameters[1].elementType \in element.types

\* DebugProtocol.SourceBreakpoint: line and optional column.
SourceBreakpoint(line, hasColumn, column) ==
    [line |-> line, hasColumn |-> hasColumn, column |-> column]
SourceBreakpointInputs ==
    {SourceBreakpoint(l, TRUE, c) : l \in 0..MaxLine, c \in 0..MaxColumn}
        \cup {SourceBreakpoint(l, FALSE, 0) : l \in 0..MaxLine}

\* DebugProtocol.Breakpoint: new Breakpoint(false) and {id, verified: true}.
Unverified == [verified |-> FALSE, id |-> -1]
Verified(id) == [verified |-> TRUE, id |-> id]

\* The loop of setBreakpoints from the k-th source breakpoint on.
RECURSIVE setBreakpointsLoop(_, _, _, _, _)
setBreakpointsLoop(manager, sourceBreakpoints, k, setBreakpoints, currentId) ==
    IF k > Len(sourceBreakpoints) THEN setBreakpoints
    ELSE LET sourceBreakpoint == sourceBreakpoints[k]
             element == getElementFromPosition(manager, sourceBreakpoint.line,
                                               sourceBreakpoint.column)
         IN IF \/ ~sourceBreakpoint.hasColumn
               \/ element = NoElement \/ ~element.hasLocation
               \/ ~hasPossibleBreakpointType(manager, element)
            THEN setBreakpointsLoop(manager, sourceBreakpoints, k + 1,
                    Append(setBreakpoints, Unverified), currentId)
            ELSE setBreakpointsLoop(manager, sourceBreakpoints, k + 1,
                    Append(setBreakpoints, Verified(currentId)),
                    currentId + 1)

\* A manager read without its installed breakpoints.
Manager_withoutInstalled ==
    [availableBreakpointTypes |-> availableBreakpointTypes,
     domainSpecificBreakpoints |-> <<>>,
     locations |-> locations, lineOffset |-> lineOffset,
     columnOffset |-> columnOffset]
\* The manager as a record.
Manager ==
    [availableBreakpointTypes |-> availableBreakpointTypes,
     domainSpecificBreakpoints |-> domainSpecificBreakpoints,
     locations |-> locations, lineOffset |-> lineOffset,
     columnOffset |-> columnOffset]

\* A setBreakpoints that removes one installed breakpoint.
setBreakpoints_removingOne(manager, sourceBreakpoints) ==
    [setBreakpoints |-> setBreakpointsLoop(manager, sourceBreakpoints, 1,
                                           <<>>, 0),
     manager |-> [manager EXCEPT !.domainSpecificBreakpoints =
                    IF Len(@) > 0 THEN Tail(@) ELSE @]]
\* CDAPBreakpointManager.setBreakpoints(sourceBreakpoints): the list it
\* returns and the manager after the call, which it leaves as it was.
setBreakpoints(manager, sourceBreakpoints) ==
    [setBreakpoints |-> setBreakpointsLoop(manager, sourceBreakpoints, 1,
                                           <<>>, 0),
     manager |-> manager]

\* What is expected of a verified source breakpoint: it has a column, its
\* position resolves to an element that has a location, and some available
\* type has a first parameter of kind element whose elementType is one of
\* the types of the element.
Verifiable(manager, sourceBreakpoint) ==
    /\ sourceBreakpoint.hasColumn
    /\ LET element == getElementFromPosition(manager, sourceBreakpoint.line,
                                             sourceBreakpoint.column) IN
       /\ element # NoElement
       /\ element.hasLocation
       /\ \E t \in DOMAIN manager.availableBreakpointTypes :
            LET first == manager.availableBreakpointTypes[t] IN
            /\ first # <<>>
            /\ first[1].type = "element"
            /\ first[1].elementType \in element.types

\* A call of setBreakpoints, as setBreakPointsRequest makes it, followed by
\* what a second call with the same list would return and install.
setBreakpointsCall ==
    /\ \E sourceBreakpoints \in
            SeqsUpTo(SourceBreakpointInputs, MaxSourceBreakpoints) :
        LET call == setBreakpoints(Manager, sourceBreakpoints)
            again == setBreakpoints(call.manager, sourceBreakpoints) IN
        /\ domainSpecificBreakpoints' = call.manager.domainSpecificBreakpoints
        /\ managerCall' =
            [op |-> "setBreakpoints",
             returned |-> call.setBreakpoints,
             body |-> [defined |-> TRUE, breakpoints |-> call.setBreakpoints],
             expected |-> [i \in 1..Len(sourceBreakpoints) |->
                              Verifiable(Manager, sourceBreakpoints[i])],
             expectedInstalled |-> domainSpecificBreakpoints,
             again |-> again.setBreakpoints,
             installedAgain |-> again.manager.domainSpecificBreakpoints]
    /\ UNCHANGED <<notManagerVars,
                   availableBreakpointTypes, locations, lineOffset,
                   columnOffset>>

\* A call of ASTElementLocator.getElementFromPosition(line, column) with a
\* position of the IDE.
getElementFromPositionCall ==
    /\ \E line \in 0..MaxLine, column \in 0..MaxColumn :
        managerCall' =
            [op |-> "getElementFromPosition",
             line |-> line,
             column |-> column,
             element |-> getElementFromPosition(Manager, line, column)]
    /\ UNCHANGED <<notManagerVars,
                   availableBreakpointTypes, domainSpecificBreakpoints,
                   locations, lineOffset, columnOffset>>

\* The installed lists the manager holds after the IDE set one breakpoint
\* twice in a list.
InstalledLists(types) ==
    {setDomainSpecificBreakpoints(types, <<b, b>>).newDomainSpecificBreakpoints :
        b \in BreakpointInputs}

\* The manager of a runtime that declared one of the catalogs for one of
\* the programs, with the line and column origins of the IDE.
SourceBreakpointsInit ==
    /\ CoreInit
    /\ SessionInit
    /\ VariableHandlerInit
    /\ FrameInit /\ LrdpInit /\ ArgsInit /\ OperationsInit
    /\ availableBreakpointTypes \in Catalogs
    /\ domainSpecificBreakpoints \in InstalledLists(availableBreakpointTypes)
    /\ \E ast \in Asts : locations = registerAst(ast)
    /\ \E linesStartAt1 \in BOOLEAN : lineOffset = Offset(linesStartAt1)
    /\ \E columnsStartAt1 \in BOOLEAN : columnOffset = Offset(columnsStartAt1)
    /\ managerCall = NoCall

SourceBreakpointsNext ==
    \/ setBreakpointsCall
    \/ getElementFromPositionCall

SourceBreakpointsSpec ==
    SourceBreakpointsInit /\ [][SourceBreakpointsNext]_vars

\* ------------------------------------------------------------ stack trace
\* CustomDebugSession.stackTraceRequest (src/src/customDebugSession.ts,
\* lines 372-423): the frames it builds from the stack of the runtime.  The
\* locations it reads are those recorded when the steps were entered, and
\* are defined.

\* Names of the composite steps found on the stack.
StepNames == {"a", "b", "c"}
\* The stacks of at most MaxDepth steps, outermost step first; a step is on
\* the stack once.
Stacks ==
    {st \in SeqsUpTo(StepNames, MaxDepth) :
        \A i, j \in 1..Len(st) : i # j => st[i] # st[j]}

\* args.startFrame and args.levels, -1 when undefined.
Undefined == -1
FrameArguments == {Undefined} \cup 0..(MaxDepth + 1)

\* DebugProtocol.StackFrame: id and name.
StackFrame(id, name) == [id |-> id, name |-> name]

\* The loop of stackTraceRequest from frame i on.
RECURSIVE stackFramesLoop(_, _, _, _, _)
stackFramesLoop(st, startFrame, levels, i, stackFrames) ==
    IF i >= startFrame + levels \/ i > Len(st) THEN stackFrames
    ELSE IF i = Len(st)
        THEN stackFramesLoop(st, startFrame, levels, i + 1,
                Append(stackFrames, StackFrame(Len(st), "Main")))
    ELSE stackFramesLoop(st, startFrame, levels, i + 1,
                Append(stackFrames,
                       StackFrame(startFrame + levels - i - 1,
                                  st[Len(st) - i])))

\* The body of the response of stackTraceRequest.
responseBody(st, argStartFrame, argLevels) ==
    LET startFrame == IF argStartFrame # Undefined THEN argStartFrame ELSE 0
        levels == IF argLevels # Undefined /\ argLevels <= Len(st)
                  THEN argLevels ELSE Len(st) + 1
    IN [stackFrames |->
            stackFramesLoop(st, startFrame, levels, startFrame, <<>>),
        totalFrames |-> Len(st) + 1]

\* stackTraceRequest, for a stack of the runtime and arguments of the IDE.
stackTraceRequest ==
    /\ \E st \in Stacks, startFrame \in FrameArguments,
          levels \in FrameArguments :
        LET body == responseBody(st, startFrame, levels) IN
        stackTraceCall' =
            [stack |-> st, startFrame |-> startFrame, levels |-> levels,
             failed |-> FALSE, stackFrames |-> body.stackFrames,
             totalFrames |-> body.totalFrames]
    /\ UNCHANGED notFrameVars

StackTraceInit ==
    /\ CoreInit /\ SessionInit /\ ManagerInit /\ VariableHandlerInit
    /\ FrameInit /\ LrdpInit /\ ArgsInit /\ OperationsInit

StackTraceNext == stackTraceRequest

StackTraceSpec == StackTraceInit /\ [][StackTraceNext]_vars

\* ------------------------------------------- variable handler: operations
Becomes(handler) ==
    /\ referenceToObject' = handler.registry.referenceToObject
    /\ objectToReference' = handler.registry.objectToReference
    /\ currentReference' = handler.currentReference

\* variablesRequest -> CustomDebugRuntime.getVariables ->
\* VariableHandler.getVariables(variablesReference); a reference that is
\* not in the registry throws and changes nothing.
variablesRequest ==
    \E variablesReference \in 1..MaxReference :
        /\ IF variablesReference \in DOMAIN referenceToObject
           THEN /\ Becomes(createVariables(Handler,
                    ReferencedObjects(referenceToObject[variablesReference]),
                    1))
                /\ variablesCall' = [op |-> "getVariables",
                                     variablesReference |-> variablesReference,
                                     found |-> TRUE]
           ELSE /\ UNCHANGED <<referenceToObject, objectToReference,
                               currentReference>>
                /\ variablesCall' = [op |-> "getVariables",
                                     variablesReference |-> variablesReference,
                                     found |-> FALSE]
        /\ UNCHANGED <<notHandlerVars,
                       processedRuntimeState, runtimeStates>>

\* CustomDebugRuntime.updateRuntimeState(): the language runtime returns
\* its state, a new model, and the handler is updated with it.
updateRuntimeState ==
    /\ runtimeStates < MaxRuntimeStates
    /\ runtimeStates' = runtimeStates + 1
    /\ processedRuntimeState' = runtimeStates + 1
    /\ Becomes(updateRuntime(runtimeStates + 1))
    /\ variablesCall' = [op |-> "updateRuntime", variablesReference |-> 0,
                         found |-> FALSE]
    /\ UNCHANGED notHandlerVars

\* The part of CustomDebugRuntime.executeAtomicStep that concerns the
\* handler: the runtime state is invalidated.
executeAtomicStep ==
    /\ processedRuntimeState' = 0
    /\ Becomes(invalidateRuntime)
    /\ variablesCall' = [op |-> "invalidateRuntime", variablesReference |-> 0,
                         found |-> FALSE]
    /\ UNCHANGED <<notHandlerVars, runtimeStates>>

VariablesNext ==
    \/ variablesRequest
    \/ updateRuntimeState
    \/ executeAtomicStep

\* The handler constructed by initExecution.
VariablesInit ==
    /\ CoreInit /\ SessionInit /\ ManagerInit /\ VariableHandlerInit
    /\ FrameInit /\ LrdpInit /\ ArgsInit /\ OperationsInit

VariablesSpec == VariablesInit /\ [][VariablesNext]_vars

\* ------------------------------------------- motion requests at any time
\* The handlers of the motion requests send their response and call the
\* operation of the runtime without awaiting it and without looking at
\* whether an earlier operation has returned; every LRDP call has its own
\* promise, settled by the callback of its own request.  This section
\* describes stepIn requests received at any time after a launch that
\* paused on start, with no breakpoint installed (checkBreakpoints then
\* returns without suspending).

\* Largest number of stepIn requests.
MaxOperations == 3

\* An operation: `pc` is "step" while it awaits enterCompositeStep or
\* executeAtomicStep, "avail" while it awaits getAvailableSteps, "returned"
\* once stepIn returned or threw, "crashed" when the callback of its call
\* threw; `cur` is the step it performs, `resp` the completedSteps it got.
Operation(pc, cur) == [pc |-> pc, cur |-> cur, resp |-> <<>>]
\* A pending LRDP call, issued by operation `operation` (0: by the
\* un-awaited getEnabledStepLocation).
Call(operation, request) ==
    [operation |-> operation, kind |-> request.kind, step |-> request.step]

InProgress(i) == operations[i].pc \in {"step", "avail"}
Alive == \A i \in DOMAIN operations : operations[i].pc # "crashed"
\* calls.splice(k, 1)
Answered(k) == SubSeq(calls, 1, k - 1) \o SubSeq(calls, k + 1, Len(calls))

\* launchRequest with pauseOnStart set: initExecution, then no run().
launchPaused ==
    /\ LaunchRequest
    /\ pauseOnStart'

\* stepInRequest -> stepIn(), up to its first suspension.
stepInRequest ==
    /\ Launched
    /\ Alive
    /\ Len(operations) < MaxOperations
    /\ LET o == IF isExecutionDone THEN doneOutcome(terminatedEventSent)
                ELSE IF selectedStep = NoStep
                     THEN Throw("No step currently enabled.")
                ELSE Goto("step")
       IN  /\ operations' = Append(operations,
                IF o.kind = "goto" THEN Operation("step", selectedStep)
                ELSE Operation("returned", NoStep))
           /\ calls' = IF o.kind = "goto"
                       THEN Append(calls, Call(Len(operations) + 1,
                                               StepRequest(selectedStep)))
                       ELSE calls
           /\ events' = IF EmitsEvent(o) THEN Append(events, o.reason)
                        ELSE events
           /\ lastError' = IF o.kind = "error" THEN o.reason ELSE lastError
    /\ UNCHANGED <<configVars, engineVars, bpVars, task, inflight, rtVars,
                   requests, hist>>
    /\ UNCHANGED notConcurrentVars

\* What the runtime may report for an executed atomic step: completedSteps
\* lists the steps "completed after the execution of the atomic step", with
\* or without the atomic step itself.
RtExecuteReports(step) ==
    RtExecuteResults(step)
        \cup {[r EXCEPT !.completedSteps = Tail(@)] : r \in RtExecuteResults(step)}

\* enterCompositeStep or executeAtomicStep returns to the operation that
\* called it, which calls getAvailableSteps.
stepReturns ==
    /\ Alive
    /\ \E k \in DOMAIN calls :
        LET i == calls[k].operation
            step == operations[i].cur
        IN  /\ calls[k].kind \in {"enterCompositeStep", "executeAtomicStep"}
            /\ IF step.isComposite THEN RtCanEnter(step)
               ELSE RtCanExecute(step)
            /\ \E r \in IF step.isComposite
                        THEN {[stack |-> x.stack, avail |-> x.avail,
                               completedSteps |-> <<>>] :
                                  x \in RtEnterResults(step)}
                        ELSE RtExecuteReports(step) :
                /\ rtStack' = r.stack
                /\ rtAvail' = r.avail
                /\ nextId' = nextId + Len(r.avail)
                /\ operations' = [operations EXCEPT
                      ![i] = [@ EXCEPT !.pc = "avail",
                                       !.resp = r.completedSteps]]
            /\ calls' = Append(Answered(k),
                               Call(i, [kind |-> "getAvailableSteps",
                                        step |-> 0]))
    /\ UNCHANGED <<configVars, engineVars, bpVars, task, inflight, events,
                   lastError, requests, hist>>
    /\ UNCHANGED notConcurrentVars

\* The runtime answers the call for a step it does not offer (any more)
\* with a JSON-RPC error, which Proxy.request throws from the callback.
stepFails ==
    /\ Alive
    /\ \E k \in DOMAIN calls :
        LET i == calls[k].operation
            step == operations[i].cur
        IN  /\ calls[k].kind \in {"enterCompositeStep", "executeAtomicStep"}
            /\ ~(IF step.isComposite THEN RtCanEnter(step)
                 ELSE RtCanExecute(step))
            /\ operations' = [operations EXCEPT ![i] = [@ EXCEPT !.pc = "crashed"]]
    /\ calls' = <<>>
    /\ lastError' = "LRDP error"
    /\ UNCHANGED <<configVars, engineVars, bpVars, task, inflight, rtVars,
                   events, requests, hist>>
    /\ UNCHANGED notConcurrentVars

\* getAvailableSteps returns inside updateAvailableSteps: the step manager
\* is updated, the location of the newly selected step is requested without
\* awaiting it, and stepIn goes on to its end.
getAvailableStepsReturns ==
    /\ Alive
    /\ \E k \in DOMAIN calls :
        LET i == calls[k].operation
            u == update(rtAvail, operations[i].resp)
            failed == u.error # "none"
            done == executionDoneAfter(failed, isExecutionDone, rtAvail)
            o == stepInOutcome(done, pauseOnEnd)
        IN  /\ calls[k].kind = "getAvailableSteps"
            /\ stack' = u.stack
            /\ availableSteps' = u.availableSteps
            /\ selectedStep' = u.selectedStep
            /\ availableStepsLocations' = u.locations
            /\ isExecutionDone' = done
            /\ calls' = IF failed \/ done THEN Answered(k)
                        ELSE Append(Answered(k),
                               Call(0, [kind |-> "getStepLocation",
                                        step |-> u.selectedStep.id]))
            /\ operations' = [operations EXCEPT ![i] = [@ EXCEPT !.pc = "returned"]]
            /\ pausedOnCurrentStep' = (o.kind = "stop")
            /\ terminatedEventSent' = IF o.kind = "terminated" THEN TRUE
                                      ELSE terminatedEventSent
            /\ events' = Append(events, o.reason)
            /\ lastError' = IF failed THEN u.error ELSE lastError
    /\ UNCHANGED <<configVars, pauseRequired, bpVars, task, inflight, rtVars,
                   requests, hist>>
    /\ UNCHANGED notConcurrentVars

\* getStepLocation returns inside getEnabledStepLocation: the location is
\* stored under the step that is selected now.
getStepLocationReturns ==
    /\ Alive
    /\ \E k \in DOMAIN calls :
        /\ calls[k].kind = "getStepLocation"
        /\ calls' = Answered(k)
        /\ availableStepsLocations' =
              IF selectedStep = NoStep THEN availableStepsLocations
              ELSE SetLocation(availableStepsLocations, selectedStep,
                               calls[k].step)
    /\ UNCHANGED <<configVars, availableSteps, selectedStep, stack,
                   isExecutionDone, terminatedEventSent, pauseRequired,
                   pausedOnCurrentStep, bpVars, task, inflight, rtVars,
                   events, lastError, requests, hist, operations>>
    /\ UNCHANGED notConcurrentVars

ConcurrentInit == Init

ConcurrentNext ==
    \/ launchPaused
    \/ stepInRequest
    \/ stepReturns
    \/ stepFails
    \/ getAvailableStepsReturns
    \/ getStepLocationReturns

ConcurrentSpec == ConcurrentInit /\ [][ConcurrentNext]_vars

\* ------------------------------------------------------------- properties
MotionOps == {"run", "nextStep", "stepIn", "stepOut"}
MotionRequests == {"continue", "next", "stepIn", "stepOut"}
Returned == task.pc \in {"idle", "crashed"}

\* C1: a motion request handled after a stopped event has produced, once
\* its operation has returned, exactly one further event (a stopped or a
\* terminated event), and never two.
C1_OneEventPerMotion ==
    /\ hist.opEvents <= 1
    /\ (task.op \in MotionOps /\ hist.fromStop /\ Returned)
          => hist.opEvents = 1

\* C5: stepOut with an empty stack runs the loop of run(); with a
\* non-empty stack the operation returns only after exactly one event,
\* a stopped event whose reason includes step or the terminated event.
C5_StepOutReachesParent ==
    /\ (task.op = "stepOut" /\ hist.stackAtStart = 0 /\ ~Returned)
          => task.loop = "run"
    /\ (task.op = "stepOut" /\ hist.stackAtStart > 0 /\ Returned)
          => /\ hist.opEvents = 1
             /\ LastEvent \in {"step", "terminated"}

StepRequestKinds == {"enterCompositeStep", "executeAtomicStep"}
StepRequestsIn(q) == {i \in 1..Len(q) : q[i].kind \in StepRequestKinds}

\* A breakpoint activation stops the operation with reason breakpoint
\* before the step is requested from the runtime.
ActivationStops ==
    (activatedBreakpoints' \ activatedBreakpoints # {})
       => /\ events' = Append(events, "breakpoint")
          /\ task'.pc = "idle"
          /\ StepRequestsIn(inflight') = {}

\* C2 as stated: every enterCompositeStep or executeAtomicStep request for
\* a step s follows a breakpoint check on s that activated nothing, unless
\* s is the step the last stop was reported on and no step was performed
\* since; an activation stops with reason breakpoint before s is performed.
C2_CheckedUnlessResumedOnSameStep ==
    /\ [](hist.lastSend.step # 0 =>
            \/ hist.lastSend.checked
            \/ (hist.lastSend.fresh /\ hist.lastSend.on = hist.lastSend.step))
    /\ [][ActivationStops]_vars

\* A new list of more than one available step, obtained by a looping
\* operation, stops the operation with reason choice.
ChoiceStops ==
    (task.loop # "none" /\ availableSteps' # availableSteps
     /\ Len(availableSteps') > 1)
       => /\ events' = Append(events, "choice")
          /\ task'.pc = "idle"

NextStepReturned == task.op = "nextStep" /\ task.pc = "idle"

\* C4 as stated: once the runtime reported the target of nextStep
\* completed, nextStep executes no further atomic step and ends with a
\* stopped event whose reason includes step, or with the terminated event.
C4_NextStepStopsWithStep ==
    /\ ~hist.execAfterTarget
    /\ (NextStepReturned /\ hist.targetReported)
          => LastEvent \in {"step", "terminated"}

StackIds == [i \in 1..Len(stack) |-> stack[i].id]
\* The runtime performed a step and the step manager is not updated yet.
UpdatePending == task.pc \in {"avail", "crashed"}

\* C8: except while an update is pending, the stack holds exactly the
\* composite steps entered and not yet reported completed, in the order
\* they were entered: entering a composite pushed that step, and an atomic
\* execution popped the steps reported completed.
C8_StackMatchesEnteredComposites ==
    ~UpdatePending => StackIds = rtStack

\* The head of the loop stops with reason pause when a pause is required
\* and the execution is not done.
PauseObservedAtLoopHead ==
    (task.pc = "top" /\ pauseRequired /\ ~isExecutionDone)
       => /\ events' = Append(events, "pause")
          /\ task'.pc = "idle"

\* run, nextStep and stepOut start their loop with no pause required.
MotionClearsPause ==
    (task.pc = "idle" /\ task'.pc = "top" /\ requests' # requests)
       => ~pauseRequired'

\* run() called by continueRequest or by launchRequest.
RunOps == {"run", "launch"}

\* C6 as stated: after a pause requested while run is in progress, run
\* starts no atomic step: it stops with reason pause at the head of the
\* loop, and a later continue starts with the pause cleared.
C6_PauseBeforeNextAtomicStep ==
    /\ [](task.op \in RunOps => hist.execSincePause = 0)
    /\ [][PauseObservedAtLoopHead]_vars
    /\ [][MotionClearsPause]_vars

\* C6 amended: after a pause requested while run is in progress, run
\* starts at most one more atomic step, and none when the request arrived
\* while an atomic step was being executed; it stops with reason pause at
\* the head of the loop, and a later continue starts with the pause
\* cleared.
C6_PauseAtNextLoopHead ==
    /\ [](task.op \in RunOps =>
            /\ hist.execSincePause <= 1
            /\ hist.pauseAtExec => hist.execSincePause = 0)
    /\ [][PauseObservedAtLoopHead]_vars
    /\ [][MotionClearsPause]_vars

\* After a stop with reason pause, run() is executing the next atomic
\* step.
C6_Witness ==
    /\ LastEvent = "pause"
    /\ task.op = "run"
    /\ task.pc = "step"
    /\ hist.execInOp = 1

\* The request that makes a pause required sends no event.
PauseSendsNothing ==
    (pauseRequired' /\ ~pauseRequired) => events' = events

\* A stopped event with reason pause is the first event of its operation
\* and follows a pause requested while the operation was in progress.
PauseStopIsRequested ==
    (events' # events /\ events'[Len(events')] = "pause")
       => /\ hist.pausesInOp >= 1
          /\ hist.opEvents = 0

\* C7: a pause request sends no event by itself; a pause requested while
\* no operation is in progress does not stop the next operation; and an
\* operation sends at most one stopped event with reason pause, however
\* many pauses were requested while it was in progress.
C7_PauseStopsAtMostOnce ==
    /\ [][PauseSendsNothing]_vars
    /\ [][PauseStopIsRequested]_vars
    /\ [](hist.opEvents <= 1)

\* An operation during which two pauses were requested has stopped with
\* one event, of reason pause.
C7_Witness ==
    /\ task.pc = "idle"
    /\ hist.pausesInOp = 2
    /\ hist.opEvents = 1
    /\ LastEvent = "pause"

TerminatedSent == \E i \in 1..Len(events) : events[i] = "terminated"

\* C9: once the execution is done and the terminated event was sent, the
\* only event sent is terminated again, no enterCompositeStep or
\* executeAtomicStep request is sent, and a motion request either re-sends
\* terminated or fails with 'Execution is already done.'.
C9_TerminatedIsAbsorbing ==
    [][(isExecutionDone /\ TerminatedSent)
         => /\ isExecutionDone'
            /\ events' \in {events, Append(events, "terminated")}
            /\ StepRequestsIn(inflight') = {}
            /\ (requests' # requests
                /\ hist'.requestWhenDone \in MotionRequests)
                  => \/ events' = Append(events, "terminated")
                     \/ lastError' = "Execution is already done."]_vars

\* A program with steps ran to its end, terminated was sent, and a later
\* motion request failed because the execution was done.
C9_Witness ==
    /\ hist.initialSteps > 0
    /\ isExecutionDone
    /\ TerminatedSent
    /\ task.op \in MotionOps
    /\ lastError = "Execution is already done."

EndOnlyWhenDone ==
    (events' # events /\ events'[Len(events')] = "end")
       => (isExecutionDone' /\ pauseOnEnd')

\* An operation that returns with the execution done, and that was in
\* progress before, drove the execution to its end: with pauseOnEnd unset
\* it sends terminated and nothing else.
EndWithoutPauseTerminates ==
    (Launched /\ task.pc \notin {"idle", "crashed"} /\ task'.pc = "idle"
     /\ isExecutionDone' /\ ~pauseOnEnd)
       => /\ events' = Append(events, "terminated")
          /\ hist'.opEvents = 1

\* C11: a stopped event with reason end is sent only when the execution is
\* done and pauseOnEnd is set; a motion operation that drives the execution
\* to its end with pauseOnEnd unset sends terminated and no stopped event.
C11_EndOnlyWithPauseOnEnd ==
    /\ [][EndOnlyWhenDone]_vars
    /\ [][EndWithoutPauseTerminates]_vars

\* A motion operation executed the last atomic step of a program launched
\* without pauseOnEnd, and sent terminated.
C11_Witness ==
    /\ task.op \in MotionOps
    /\ task.pc = "idle"
    /\ hist.execInOp >= 1
    /\ isExecutionDone
    /\ ~pauseOnEnd
    /\ hist.opEvents = 1
    /\ LastEvent = "terminated"

\* ---- session layer
\* Positions in sentMessages of the responses to request r.
ResponsesTo(r) ==
    {i \in 1..Len(sentMessages) :
        sentMessages[i].type = "response" /\ sentMessages[i].request = r}

\* setBreakpoints requests dispatched by an initialized session before
\* initializeExecution returned.
EarlySetBreakpoints ==
    {r \in 1..Len(received) :
        received[r].command = "setBreakpoints" /\ received[r].early}

\* C12: a setBreakpoints request received before initializeExecution has
\* finished is answered exactly once, with success, not before the
\* initialization is over and as soon as it is over, and such requests are
\* answered in the order they were received.
C12_EarlySetBreakpointsResolvedOnce ==
    \A r \in EarlySetBreakpoints :
        /\ Cardinality(ResponsesTo(r)) <= 1
        /\ ~waitForInitialization => ResponsesTo(r) = {}
        /\ waitForInitialization =>
              \E i \in ResponsesTo(r) : sentMessages[i].name = "success"
        /\ \A q \in EarlySetBreakpoints :
              q < r => \A i \in ResponsesTo(q), j \in ResponsesTo(r) : i < j

\* No handler is suspended.
Quiescent == Len(awaiting) = 0

\* C13: every IDE request receives exactly one response: never two, and
\* one as soon as no handler is suspended; responses are sent in the order
\* of the requests.
C13_OneResponsePerRequestInOrder ==
    /\ \A r \in 1..Len(received) : Cardinality(ResponsesTo(r)) <= 1
    /\ Quiescent =>
          \A r \in 1..Len(received) : Cardinality(ResponsesTo(r)) = 1
    /\ \A i, j \in 1..Len(sentMessages) :
          (i < j /\ sentMessages[i].type = "response"
                 /\ sentMessages[j].type = "response")
             => sentMessages[i].request < sentMessages[j].request

\* C14: every event sent in the handling of a request follows the
\* response to that request.
C14_ResponseBeforeCausedEvents ==
    \A j \in 1..Len(sentMessages) :
        sentMessages[j].type = "event"
           => \E i \in 1..(j - 1) : i \in ResponsesTo(sentMessages[j].request)

C16_ParallelOutcomesReported ==
    managerCall.op = "setDomainSpecificBreakpoints"
        => /\ managerCall.returned = managerCall.expected
           /\ domainSpecificBreakpoints = managerCall.expectedInstalled
           /\ managerCall.body.defined
           /\ managerCall.body.breakpoints
                = [i \in 1..Len(managerCall.returned) |->
                      [verified |-> managerCall.returned[i]]]
\* The part of C16 about the manager alone.
ParallelOutcomesInstalled ==
    managerCall.op = "setDomainSpecificBreakpoints"
        => /\ managerCall.returned = managerCall.expected
           /\ domainSpecificBreakpoints = managerCall.expectedInstalled

\* A call of getVariables leaves every reference of the registry on the
\* object it designated.
HandlesStable ==
    variablesCall'.op = "getVariables"
        => \A h \in DOMAIN referenceToObject :
              /\ h \in DOMAIN referenceToObject'
              /\ referenceToObject'[h] = referenceToObject[h]
\* Reference r designates the root of the runtime state held.
ResolvesToRuntimeStateRoot(r) ==
    /\ r \in DOMAIN referenceToObject
    /\ processedRuntimeState > 0
    /\ referenceToObject[r] = runtimeStateRoot(processedRuntimeState)
ResolvesToAstRoot(r) ==
    r \in DOMAIN referenceToObject /\ referenceToObject[r] = astRoot
RootsResolveAfterStepOrUpdate ==
    variablesCall.op \in {"invalidateRuntime", "updateRuntime"}
        => /\ ResolvesToAstRoot(AST_ROOT_VARIABLES_REFERENCE)
           /\ ResolvesToRuntimeStateRoot(RUNTIME_STATE_ROOT_VARIABLES_REFERENCE)
\* C17: the references given to the IDE keep designating the same object
\* until the next atomic step or runtime update, and right after an atomic
\* step or a runtime update reference 1 resolves to the AST root and
\* reference 2 to the root of the runtime state.
C17_HandlesStableRootsResolve ==
    /\ [][HandlesStable]_vars
    /\ []RootsResolveAfterStepOrUpdate
\* The parts of C17 that the handler satisfies.
HandlesStableBetweenInvalidations == [][HandlesStable]_vars
AstRootAlwaysResolves == ResolvesToAstRoot(AST_ROOT_VARIABLES_REFERENCE)
RootsResolveAfterUpdate ==
    variablesCall.op = "updateRuntime"
        => ResolvesToRuntimeStateRoot(RUNTIME_STATE_ROOT_VARIABLES_REFERENCE)

\* Reference 1 is held by the AST root and by nothing else, and reference 2
\* by nothing but the root of the runtime state.
RootHandlesReserved ==
    /\ ResolvesToAstRoot(AST_ROOT_VARIABLES_REFERENCE)
    /\ RUNTIME_STATE_ROOT_VARIABLES_REFERENCE \in DOMAIN referenceToObject
        => ResolvesToRuntimeStateRoot(RUNTIME_STATE_ROOT_VARIABLES_REFERENCE)
\* The references a call of getVariables mints are at least 3 and larger
\* than every reference of the registry.
MintedFrom3Increasing ==
    variablesCall'.op = "getVariables"
        => \A h \in DOMAIN referenceToObject' \ DOMAIN referenceToObject :
              /\ h >= 3
              /\ \A g \in DOMAIN referenceToObject : g < h
\* C18: reference 1 always designates the AST root and reference 2 the root
\* of the runtime state; every other reference is minted from 3 upward in
\* increasing order, so that no other object is ever given 1 or 2, after
\* construction and after every invalidation or update.
C18_RootHandlesPermanent ==
    /\ []RootHandlesReserved
    /\ [][MintedFrom3Increasing]_vars
\* What holds from a runtime update to the next atomic step.
RootHandlesReservedWhileUpdated ==
    processedRuntimeState > 0 => RootHandlesReserved

VerifiableBefore(i) ==
    Cardinality({j \in 1..(i - 1) : managerCall.expected[j]})
\* C20 as stated: one outcome per source breakpoint, in input order; the
\* outcome for input i (counted from 0) is {id: i, verified: true} exactly
\* when the breakpoint is verifiable, {verified: false} otherwise.
C20_OutcomeIdIsInputIndex ==
    managerCall.op = "setBreakpoints"
        => /\ Len(managerCall.returned) = Len(managerCall.expected)
           /\ \A i \in 1..Len(managerCall.returned) :
                managerCall.returned[i] =
                    IF managerCall.expected[i] THEN Verified(i - 1)
                    ELSE Unverified
\* C20, amended: one outcome per source breakpoint, in input order; the
\* outcome for an input is {id: n, verified: true}, with n the number of
\* verified inputs before it, exactly when the breakpoint has a column, its
\* position resolves to an element that has a location, and some available
\* type has a first parameter of kind element whose elementType is one of
\* the types of the element; {verified: false} otherwise.
C20_OutcomeIdCountsVerified ==
    managerCall.op = "setBreakpoints"
        => /\ Len(managerCall.returned) = Len(managerCall.expected)
           /\ \A i \in 1..Len(managerCall.returned) :
                managerCall.returned[i] =
                    IF managerCall.expected[i]
                    THEN Verified(VerifiableBefore(i))
                    ELSE Unverified
\* An unverified outcome followed by a verified one.
C20_Witness ==
    /\ managerCall.op = "setBreakpoints"
    /\ managerCall.expected = <<FALSE, TRUE>>
    /\ managerCall.returned = <<Unverified, Verified(0)>>

\* The containment rule: on the start line of the element the column is at
\* least the start column, and at most the end column when the element
\* ends on that line; on its end line the column is at most the end column;
\* on another line, the line is between the start line and the end line.
ContainsPosition(location, line, column) ==
    IF line = location.line
    THEN /\ column >= location.column
         /\ location.line = location.endLine => column <= location.endColumn
    ELSE IF line = location.endLine
    THEN column <= location.endColumn
    ELSE location.line <= line /\ line <= location.endLine
\* C21: every element returned for a position of the IDE has a location
\* that contains the position, with the line offset and the column offset
\* of the IDE added once.
C21_ReturnedElementContainsPosition ==
    (managerCall.op = "getElementFromPosition"
     /\ managerCall.element # NoElement)
        => /\ managerCall.element.hasLocation
           /\ ContainsPosition(managerCall.element.location,
                               managerCall.line + lineOffset,
                               managerCall.column + columnOffset)
\* An element found on its end line, below its start line, for an IDE
\* whose columns start at 0.
C21_Witness ==
    /\ managerCall.op = "getElementFromPosition"
    /\ columnOffset = -1
    /\ managerCall.element # NoElement
    /\ managerCall.element.location.line < managerCall.line + lineOffset
    /\ managerCall.element.location.endLine = managerCall.line + lineOffset

\* The last stackTrace request asked for all the frames.
AllFramesRequested ==
    /\ stackTraceCall # NoStackTraceCall
    /\ stackTraceCall.startFrame = Undefined
    /\ stackTraceCall.levels = Undefined
\* One frame per step of the stack, innermost first, then Main.
FramesOfStack ==
    LET st == stackTraceCall.stack
        frames == stackTraceCall.stackFrames IN
    /\ Len(frames) = Len(st) + 1
    /\ \A i \in 1..Len(st) : frames[i].name = st[Len(st) + 1 - i]
    /\ frames[Len(st) + 1].name = "Main"
    /\ stackTraceCall.totalFrames = Len(st) + 1
\* The ids of the frames increase along the list, or decrease along it.
FrameIdsMonotonic ==
    LET frames == stackTraceCall.stackFrames IN
    \/ \A i \in 1..(Len(frames) - 1) : frames[i].id < frames[i + 1].id
    \/ \A i \in 1..(Len(frames) - 1) : frames[i].id > frames[i + 1].id
AllFramesOfStack == AllFramesRequested => FramesOfStack

AtomicStepsExecuted ==
    hist.execInOp
    - (IF \E i \in 1..Len(inflight) : inflight[i].kind = "executeAtomicStep"
       THEN 1 ELSE 0)
\* The program was, as far as it went, a sequence of atomic steps offered
\* one at a time: every step the runtime handed out was executed or is the
\* one step available.
AtomicStepsOnly ==
    /\ Len(rtAvail) <= 1
    /\ \A i \in 1..Len(rtAvail) : ~rtAvail[i].isComposite
    /\ nextId - 1 = AtomicStepsExecuted + Len(rtAvail)
\* Launch with pauseOnStart = false and pauseOnEnd unset, no breakpoint and
\* no further IDE request, on a program of atomic steps.
PlainLaunch ==
    /\ Launched
    /\ ~pauseOnStart /\ ~pauseOnEnd
    /\ breakpoints = {} /\ requests = 0
    /\ lastError = "none"
    /\ AtomicStepsOnly
\* The program of N = nextId - 1 atomic steps is over for the engine.
ProgramTerminated ==
    /\ events = <<"terminated">>
    /\ rtAvail = <<>>
    /\ hist.execInOp = nextId - 1
    /\ task.pc = "idle"
\* No stopped event, at most the terminated event, and that one only once
\* the N atomic steps were executed.
OnlyTerminatedAtEnd ==
    /\ events \in {<<>>, <<"terminated">>}
    /\ events = <<"terminated">> => ProgramTerminated
\* C24: launching with pauseOnStart = false a program of N atomic steps, with
\* no breakpoint, no choice point, no pause request and pauseOnEnd unset,
\* terminates: the engine executes exactly the N atomic steps, then sends
\* exactly one terminated event, and no stopped event.
C24_PlainLaunchTerminates ==
    /\ [](PlainLaunch => OnlyTerminatedAtEnd)
    /\ (PlainLaunch ~> (ProgramTerminated \/ ~PlainLaunch))
\* The scenario with N = 3.
C24_Witness ==
    /\ PlainLaunch
    /\ ProgramTerminated
    /\ nextId - 1 = 3
    /\ hist.execInOp = 3

\* A request is dispatched in this step.
Dispatched == Len(received') = Len(received) + 1
\* The step answers the dispatched request with the error `id`, and
\* changes nothing else.
RejectedWith(id) ==
    /\ sentMessages' = Append(sentMessages, ErrorResponse(Len(received'), id))
    /\ UNCHANGED <<isInitialized, runtime, awaiting, initializeArgs,
                   enabledStep, notSessionVars>>
\* The handling of a request that arrives at the wrong time.
RejectsUntimelyRequests ==
    Dispatched =>
        LET command == received'[Len(received')].command IN
        /\ (~isInitialized /\ command # "initialize") => RejectedWith(200)
        /\ (isInitialized /\ command = "initialize") => RejectedWith(201)
\* C25: a request other than initialize that arrives before the session is
\* initialized is answered with the error 200 and changes no state; an
\* initialize request that arrives after the initialization is answered
\* with the error 201 and leaves the stored initialization arguments
\* unchanged.
C25_UntimelyRequestsRejected == [][RejectsUntimelyRequests]_vars
\* Both errors were sent, the second initialize carrying other arguments
\* than the stored ones could not alter them.
C25_Witness ==
    /\ Len(sentMessages) >= 4
    /\ sentMessages[1] = ErrorResponse(1, 200)
    /\ received[1].command = "launch"
    /\ sentMessages[4] = ErrorResponse(3, 201)
    /\ initializeArgs.defined

\* The custom requests received.
CustomRequests ==
    {r \in 1..Len(received) : received[r].command \in CustomCommands}
\* Messages sent in the handling of request r.
MessagesOf(r) ==
    {i \in 1..Len(sentMessages) : sentMessages[i].request = r}
\* Request r was answered with an error.
Refused(r) == \E i \in MessagesOf(r) : sentMessages[i].name = "error"
\* Only requests with exactly the expected keys are accepted; the others
\* are answered with the error 100 and nothing else.
OnlyExactArgumentsAccepted ==
    \A r \in CustomRequests :
        /\ (MessagesOf(r) # {} /\ ~Refused(r)) => received[r].exact
        /\ (MessagesOf(r) # {} /\ ~received[r].exact) =>
              \A i \in MessagesOf(r) :
                  sentMessages[i] = ErrorResponse(r, 100)
\* A step that answers with the error 100 changes only the messages sent
\* and the handlers suspended.
RefusalChangesNothing ==
    (/\ Len(sentMessages') > Len(sentMessages)
     /\ sentMessages'[Len(sentMessages')].id = 100)
        => UNCHANGED <<isInitialized, runtime, initializeArgs, enabledStep,
                       notSessionVars>>
\* C29: a custom request is accepted only if the own keys of its arguments
\* are exactly the expected ones (sourceFile and the fields of the
\* command); otherwise, and for an unknown command, the answer is the error
\* 100 and the runtime, step and breakpoint state are unchanged.
C29_OnlyExactArgumentsAccepted ==
    /\ []OnlyExactArgumentsAccepted
    /\ [][RefusalChangesNothing]_vars
\* An enableStep request with one key too many was refused after one with
\* the expected keys was accepted, and the enabled step is still that of
\* the accepted one.
C29_Witness ==
    \E r, q \in CustomRequests :
        /\ r < q
        /\ received[r].command = "enableStep" /\ received[r].exact
        /\ MessagesOf(r) # {} /\ ~Refused(r)
        /\ received[q].command = "enableStep" /\ ~received[q].exact
        /\ Refused(q)
        /\ enabledStep = 1

UpdateThrows ==
    /\ task.pc = "avail"
    /\ Len(inflight) > 0
    /\ Head(inflight).kind = "getAvailableSteps"
    /\ update(rtAvail, task.resp).error # "none"
    /\ task' # task
    /\ task'.pc # "crashed"
CheckBreakpointFails ==
    /\ task.pc = "check"
    /\ Len(inflight) > 0
    /\ Head(inflight).kind = "checkBreakpoint"
    /\ lastError' = "transport failure"
ResumesWithoutCheck ==
    (skipRedundantPauses /\ hist.lastSend.step # 0 /\ hist.lastSend.fresh)
        => (hist.lastSend.paused /\ ~hist.lastSend.checked)
\* pausedOnCurrentStep is set exactly while no step was entered or executed
\* since the last stop, or since the start.
PausedUntilStepPerformed ==
    pausedOnCurrentStep <=> hist.stepsSinceStop = 0
\* A stop in this step sets pausedOnCurrentStep; with skipRedundantPauses
\* on, a stop on a breakpoint comes after a step was performed since the
\* stop before.
StopSetsPaused ==
    (Len(events') > Len(events) /\ events'[Len(events')] # "terminated")
        => /\ pausedOnCurrentStep'
           /\ (skipRedundantPauses /\ events'[Len(events')] = "breakpoint")
                 => hist.stepsSinceStop > 0
SelectedIsAvailable ==
    IF Len(availableSteps) = 0 THEN selectedStep = NoStep
    ELSE selectedStep \in Range(availableSteps)
\* StepManager.update returns normally in this step, which consumes the
\* answer to getAvailableSteps.
UpdateReturns ==
    /\ task.pc = "avail"
    /\ Len(inflight) > 0
    /\ Head(inflight).kind = "getAvailableSteps"
    /\ update(rtAvail, task.resp).error = "none"
    /\ task' # task
    /\ task'.pc # "crashed"
\* The update installs the list the runtime reported and selects its first
\* step.
UpdateSelectsFirst ==
    UpdateReturns =>
        /\ availableSteps' = rtAvail
        /\ selectedStep' = IF Len(rtAvail) = 0 THEN NoStep ELSE rtAvail[1]
\* The selection changes only through the construction of the step manager,
\* an update, or a selectStep, which selects one of the available steps.
SelectionKept ==
    selectedStep' # selectedStep =>
        \/ phase = "created"
        \/ UpdateReturns
        \/ /\ requests' = requests + 1
           /\ availableSteps' = availableSteps
           /\ selectedStep' \in Range(availableSteps)
\* C31: after every update the selected step is the first step of the
\* runtime-reported available steps (undefined exactly when there is none);
\* selectStep(id) with the id of an available step makes that step the
\* selected one until the next update; hence the selected step is always a
\* member of availableSteps.
C31_SelectedStepIsAvailable ==
    /\ []SelectedIsAvailable
    /\ [][UpdateSelectsFirst /\ SelectionKept]_vars
\* After an update, selectStep made a step other than the first one the
\* selected step.
C31_Witness ==
    /\ Len(stack) > 0
    /\ Len(availableSteps) > 1
    /\ selectedStep = availableSteps[2]

\* C32: a session processes one request at a time: a motion request that
\* arrives while an earlier motion operation is still suspended on an LRDP
\* call does not start a second engine loop over the same state, so that at
\* most one operation is in progress and the step requests of two
\* operations never interleave.
C32_OneOperationAtATime ==
    \A i, j \in DOMAIN operations : (InProgress(i) /\ InProgress(j)) => i = j

\* An LRDP call is answered in this step, and its answer is consumed by the
\* code that issued it.
CallAnswered ==
    /\ calls' # calls
    /\ ~(Len(calls') = Len(calls) + 1 /\ SubSeq(calls', 1, Len(calls)) = calls)
    /\ \A i \in DOMAIN operations : operations'[i].pc # "crashed"
\* C33: the LRDP requests of one session are issued in program order and
\* their responses are consumed in that same order, including the
\* step-location request that is started after each refresh of the
\* available steps: the call answered is the oldest one not answered yet.
C33_ResponsesInIssueOrder ==
    [][CallAnswered => SubSeq(calls', 1, Len(calls) - 1) = Tail(calls)]_vars

RegistryInjective ==
    /\ \A r \in DOMAIN referenceToObject :
          /\ referenceToObject[r] \in DOMAIN objectToReference
          /\ objectToReference[referenceToObject[r]] = r
    /\ \A o \in DOMAIN objectToReference :
          /\ objectToReference[o] \in DOMAIN referenceToObject
          /\ referenceToObject[objectToReference[o]] = o
\* A call of getVariables keeps the reference of every object that has one,
\* and every reference it returns designates, after the call, the object it
\* was returned for.
ReferencesMemoized ==
    (variablesCall'.op = "getVariables" /\ variablesCall'.found) =>
        LET objects == ReferencedObjects(
                          referenceToObject[variablesCall'.variablesReference])
            returned == returnedReferences(Handler, objects, 1)
        IN  /\ \A o \in DOMAIN objectToReference :
                  /\ o \in DOMAIN objectToReference'
                  /\ objectToReference'[o] = objectToReference[o]
            /\ \A k \in DOMAIN objects :
                  /\ returned[k] \in DOMAIN referenceToObject'
                  /\ referenceToObject'[returned[k]] = objects[k]
\* C35: between two invalidations the variable reference table is injective
\* and memoized: the same object is always given the same reference, two
\* different objects never share a reference, and every reference that was
\* returned to the IDE resolves to the object it was minted for.
C35_ReferencesInjectiveMemoized ==
    /\ []RegistryInjective
    /\ [][ReferencesMemoized]_vars
\* The variables of the root of the runtime state were listed after those
\* of the AST root: the element both refer to kept its reference, and the
\* child of the runtime state got a new one.
C35_Witness ==
    /\ variablesCall.op = "getVariables"
    /\ variablesCall.found
    /\ variablesCall.variablesReference = RUNTIME_STATE_ROOT_VARIABLES_REFERENCE
    /\ processedRuntimeState > 0
    /\ Object(0, "child") \in DOMAIN objectToReference
    /\ Object(0, "items") \in DOMAIN objectToReference
    /\ Object(processedRuntimeState, "child") \in DOMAIN objectToReference
    /\ objectToReference[Object(0, "child")]
          < objectToReference[Object(0, "items")]
    /\ objectToReference[Object(0, "items")]
          < objectToReference[Object(processedRuntimeState, "child")]

\* C36: every step on the stack is a composite step that was entered
\* through enterCompositeStep: an atomic step is never pushed onto the
\* stack, whatever completedSteps list (possibly empty) the runtime reports
\* for an executed atomic step.
C36_StackHoldsComposites ==
    \A i \in DOMAIN stack : stack[i].isComposite

\* StepManager.update is called in this step, which consumes the answer to
\* getAvailableSteps.
UpdateCalled ==
    /\ task.pc = "avail"
    /\ Len(inflight) > 0
    /\ Head(inflight).kind = "getAvailableSteps"
    /\ task' # task
    /\ task'.pc # "crashed"
\* C37: whenever a composite step is entered, the location of the selected
\* step is already in the available-steps location cache, so that
\* StepManager.update never fails for a missing location; this holds for the
\* first step after initialization and while the un-awaited step-location
\* fetch started by the previous update is still in flight.
C37_LocationCachedWhenEntered ==
    [][UpdateCalled =>
          update(rtAvail, task.resp).error # "No location for selected step."]_vars

\* C38: a location stored in the available-steps location cache under a
\* step s is always the location the runtime reported for s, even when the
\* selected step changes (through enableStep/selectStep or a step update)
\* while the getStepLocation request is pending.
C38_CachedLocationIsOfItsStep ==
    \A p \in availableStepsLocations : p[1] = p[2]

\* C39: terminatedEventSent is true if and only if a terminated event has
\* already been sent to the IDE in this session, after every motion
\* operation (run, nextStep, stepIn, stepOut) returns.
C39_FlagTellsTerminatedSent ==
    (Launched /\ task.pc = "idle")
        => (terminatedEventSent <=> "terminated" \in Range(events))

\* C40: after initialization, whenever no update is in progress,
\* isExecutionDone is true if and only if the list of available steps is
\* empty, after any sequence of composite entries and atomic executions.
C40_DoneIffNoAvailableStep ==
    Launched => (isExecutionDone <=> Len(availableSteps) = 0)
\* An operation that started inside an entered composite step executed an
\* atomic step, which ended the execution.
C40_Witness ==
    /\ isExecutionDone
    /\ Len(availableSteps) = 0
    /\ hist.stackAtStart > 0
    /\ hist.execInOp > 0
    /\ Len(stack) = 0
    /\ task.pc = "idle"

TypeOK ==
    /\ phase \in {"created", "launched"}
    /\ task.pc \in {"idle", "top", "find", "check", "step", "avail", "crashed"}
    /\ Len(stack) <= MaxSteps
    /\ requests <= MaxRequests

====
